---- MODULE Spec2Model ----
(***************************************************************************)
(* Model of the taint abstract domain of mariana-trench at the level of    *)
(* CallPositionFrames: a `kind -> Frames` mapping plus a call position     *)
(* slot, built with `add` and lifted across a call site with `propagate`.  *)
(***************************************************************************)
EXTENDS Integers, Sequences, FiniteSets, TLC

(***************************************************************************)
(* Bounds of the model.                                                    *)
(***************************************************************************)
\* Largest number of `add` calls that build the propagated value.
MaxFrames == 3
\* Largest distance of an input frame.
MaxDistance == 2
\* Largest number of argument registers of the call site.
MaxArgs == 2
\* Largest number of frames added to the operands of the lattice operations.
MaxOperandFrames == 3
\* Largest number of operations applied in sequence to one value.
MaxSteps == 2

(***************************************************************************)
(* Interned values: pointers are names, the null pointer is Null.          *)
(***************************************************************************)
Null == "nullptr"
Kinds == {"TestSinkOne", "TestSinkTwo"}
Methods == {"one", "two"}
InputPosition == "Test.java:0"
CallPosition == "Test.java:1"

\* std::numeric_limits<int>::max(), the "no frame survived" sentinel.
IntMax == 2147483647

Min(a, b) == IF a <= b THEN a ELSE b

(***************************************************************************)
(* Root and AccessPath.                                                    *)
(***************************************************************************)
Root(kind, position) == [kind |-> kind, position |-> position]
AccessPath(root, path) == [root |-> root, path |-> path]

Argument(i) == Root("Argument", i)
ReturnRoot == Root("Return", 0)
LeafRoot == Root("Leaf", 0)
AnchorRoot == Root("Anchor", 0)
ProducerRoot == Root("Producer", 0)

is_argument(root) == root.kind = "Argument"
parameter_position(root) == root.position

\* The canonical port is anchor:<root>; the path of the port is ignored and
\* the arguments of a (non-static) method are shifted down by one, `this`
\* being Argument(-1).  The path element stands for the root's string.
canonicalize_for_method(port, method) ==
  IF is_argument(port.root)
    THEN AccessPath(AnchorRoot, <<Argument(parameter_position(port.root) - 1)>>)
    ELSE AccessPath(AnchorRoot, <<port.root>>)

(***************************************************************************)
(* Feature, FeatureSet and FeatureMayAlwaysSet.                            *)
(***************************************************************************)
Feature(name) == <<"feature", name>>
get_via_type_of_feature(type) == <<"via-type", type>>
get_via_value_of_feature(value) ==
  <<"via-value", IF value = Null THEN "unknown" ELSE value>>

FeatureMayAlwaysSetBottom == [bottom |-> TRUE, may |-> {}, always |-> {}]
MayAlways(may, always) == [bottom |-> FALSE, may |-> may, always |-> always]
make_always(features) == MayAlways(features, features)
make_may(features) == MayAlways(features, {})

\* join: bottom is the identity, union on may, intersection on always.
FeaturesJoin(a, b) ==
  IF a.bottom THEN b
  ELSE IF b.bottom THEN a
  ELSE MayAlways(a.may \cup b.may, a.always \cap b.always)

\* add: union on both sides (not a join).
FeaturesAdd(a, b) ==
  IF b.bottom THEN a
  ELSE IF a.bottom THEN b
  ELSE MayAlways(a.may \cup b.may, a.always \cup b.always)

\* add_always of a set of features (a single feature is a singleton).
add_always(a, features) ==
  IF a.bottom THEN make_always(features)
  ELSE MayAlways(a.may \cup features, a.always \cup features)

(***************************************************************************)
(* CanonicalName: a template or an instantiated value.                     *)
(***************************************************************************)
TemplateValue(value) == <<"template", value>>
InstantiatedValue(value) == <<"instantiated", value>>
LeafNameMarker == "%programmatic_leaf_name%"
ViaTypeOfMarker == "%via_type_of%"

signature(method) == method

\* instantiate returns the set holding the instantiated name, or the empty
\* set when the template cannot be instantiated (std::nullopt).
\* via_type_ofs is the vector of via-type-of features materialized for the
\* frame; a via-type-of template needs exactly one of them.
instantiate(canonical_name, method, via_type_ofs) ==
  IF canonical_name[2] = LeafNameMarker
    THEN {InstantiatedValue(signature(method))}
  ELSE IF canonical_name[2] = ViaTypeOfMarker
    THEN IF Len(via_type_ofs) = 1
           THEN {InstantiatedValue(via_type_ofs[1][2])}
           ELSE {}
  ELSE {InstantiatedValue(canonical_name[2])}

(***************************************************************************)
(* Frame.                                                                  *)
(***************************************************************************)
Frame(kind, callee_port, callee, field_callee, call_position, distance, origins, field_origins, inferred_features, locally_inferred_features, user_features, via_type_of_ports, via_value_of_ports, local_positions, canonical_names) ==
  [kind |-> kind,
   callee_port |-> callee_port,
   callee |-> callee,
   field_callee |-> field_callee,
   call_position |-> call_position,
   distance |-> distance,
   origins |-> origins,
   field_origins |-> field_origins,
   inferred_features |-> inferred_features,
   locally_inferred_features |-> locally_inferred_features,
   user_features |-> user_features,
   via_type_of_ports |-> via_type_of_ports,
   via_value_of_ports |-> via_value_of_ports,
   local_positions |-> local_positions,
   canonical_names |-> canonical_names]

\* Frame::bottom(): the frame whose kind is unset.
FrameBottom ==
  Frame(Null, AccessPath(LeafRoot, <<>>), Null, Null, Null, 0, {}, {},
        FeatureMayAlwaysSetBottom, FeatureMayAlwaysSetBottom, {}, {}, {}, {},
        {})

frame_is_bottom(frame) == frame.kind = Null

is_crtex_producer_declaration(frame) ==
  frame.callee_port.root.kind \in {"Anchor", "Producer"}

\* Frame::features(): inferred and locally inferred features, with the user
\* features as always-features.
features(frame) ==
  LET inferred ==
        FeaturesAdd(frame.inferred_features, frame.locally_inferred_features)
  IN IF inferred.bottom
       THEN make_always(frame.user_features)
       ELSE add_always(inferred, frame.user_features)

\* Frame::join_with on two frames of one group.
FrameJoin(a, b) ==
  [a EXCEPT
     !.distance = Min(a.distance, b.distance),
     !.origins = a.origins \cup b.origins,
     !.field_origins = a.field_origins \cup b.field_origins,
     !.inferred_features = FeaturesJoin(a.inferred_features, b.inferred_features),
     !.locally_inferred_features =
        FeaturesJoin(a.locally_inferred_features, b.locally_inferred_features),
     !.user_features = a.user_features \cup b.user_features,
     !.via_type_of_ports = a.via_type_of_ports \cup b.via_type_of_ports,
     !.via_value_of_ports = a.via_value_of_ports \cup b.via_value_of_ports,
     !.local_positions = a.local_positions \cup b.local_positions,
     !.canonical_names = a.canonical_names \cup b.canonical_names]

(***************************************************************************)
(* Frames: the grouped hashed set of the frames of one kind.  FramesByKind *)
(* is modelled by the set of all the frames, a kind being bound iff a      *)
(* frame of that kind is in the set.                                       *)
(***************************************************************************)
\* The distance is no part of the key: the frames of TEST_F(..., JoinWith)
\* that differ only in their distance are merged into the nearer one.
GroupKey(frame) ==
  <<frame.callee, frame.callee_port, frame.call_position,
    frame.canonical_names>>

GroupEqual(left, right) ==
  left.kind = right.kind /\ GroupKey(left) = GroupKey(right)

\* Frames::add under FramesByKind::update: merge into the frame of the same
\* group, or insert.
FramesAdd(frames, frame) ==
  IF \E g \in frames : GroupEqual(g, frame)
    THEN LET g == CHOOSE g \in frames : GroupEqual(g, frame)
         IN (frames \ {g}) \cup {FrameJoin(g, frame)}
    ELSE frames \cup {frame}

RECURSIVE FramesJoin(_, _)
\* FramesByKind::join_with: every frame of `other` is added to `frames`.
FramesJoin(frames, other) ==
  IF other = {} THEN frames
  ELSE LET f == CHOOSE f \in other : TRUE
       IN FramesJoin(FramesAdd(frames, f), other \ {f})

(***************************************************************************)
(* CallPositionFrames values: the position slot and the frames.            *)
(***************************************************************************)
CallPositionFrames(position, frames) ==
  [position_ |-> position, frames_ |-> frames, aborted |-> FALSE]

CallPositionFramesBottom == CallPositionFrames(Null, {})

is_bottom(value) == value.frames_ = {}

\* CallPositionFrames::add.  A failed mt_assert sets `aborted`.
add(value, frame) ==
  [position_ |-> IF value.position_ = Null THEN frame.call_position
                 ELSE value.position_,
   frames_ |-> FramesAdd(value.frames_, frame),
   aborted |->
     \/ value.aborted
     \/ value.position_ # Null /\ value.position_ # frame.call_position]

\* Variant of join_with that leaves the frames of a value that is not bottom
\* as they are.
join_with_KeepsLeft(value, other) ==
  LET position == IF is_bottom(value) THEN other.position_ ELSE value.position_
  IN [position_ |-> position,
      frames_ |-> IF is_bottom(value) THEN other.frames_ ELSE value.frames_,
      aborted |->
        \/ value.aborted
        \/ other.aborted
        \/ is_bottom(value) /\ value.position_ # Null
        \/ ~is_bottom(other) /\ position # other.position_]

\* Variant of join_with that takes the frames of the other value instead of
\* joining them.
join_with_Overwrites(value, other) ==
  LET position == IF is_bottom(value) THEN other.position_ ELSE value.position_
  IN [position_ |-> position,
      frames_ |-> IF is_bottom(other) THEN value.frames_ ELSE other.frames_,
      aborted |->
        \/ value.aborted
        \/ other.aborted
        \/ is_bottom(value) /\ value.position_ # Null
        \/ ~is_bottom(other) /\ position # other.position_]

\* CallPositionFrames::join_with.
join_with(value, other) ==
  LET position == IF is_bottom(value) THEN other.position_ ELSE value.position_
  IN [position_ |-> position,
      frames_ |-> FramesJoin(value.frames_, other.frames_),
      aborted |->
        \/ value.aborted
        \/ other.aborted
        \/ is_bottom(value) /\ value.position_ # Null
        \/ ~is_bottom(other) /\ position # other.position_]

(***************************************************************************)
(* The order of the lattice: leq and equals, and the operations built on   *)
(* it.                                                                     *)
(***************************************************************************)
\* FeatureMayAlwaysSet::leq: bottom is below everything, and a set is below
\* another one when it may hold less and always holds more.
FeaturesLeq(a, b) ==
  IF a.bottom THEN TRUE
  ELSE IF b.bottom THEN FALSE
  ELSE a.may \subseteq b.may /\ b.always \subseteq a.always

\* Frame::leq: attribute by attribute, the distance being ordered by >=.
FrameLeq(a, b) ==
  IF frame_is_bottom(a) THEN TRUE
  ELSE IF frame_is_bottom(b) THEN FALSE
  ELSE /\ a.kind = b.kind
       /\ a.callee_port = b.callee_port
       /\ a.callee = b.callee
       /\ a.field_callee = b.field_callee
       /\ a.call_position = b.call_position
       /\ a.distance >= b.distance
       /\ a.origins \subseteq b.origins
       /\ a.field_origins \subseteq b.field_origins
       /\ FeaturesLeq(a.inferred_features, b.inferred_features)
       /\ FeaturesLeq(a.locally_inferred_features, b.locally_inferred_features)
       /\ a.user_features \subseteq b.user_features
       /\ a.via_type_of_ports \subseteq b.via_type_of_ports
       /\ a.via_value_of_ports \subseteq b.via_value_of_ports
       /\ a.local_positions \subseteq b.local_positions
       /\ a.canonical_names \subseteq b.canonical_names

\* FramesByKind::leq over grouped sets: every frame on the left has a frame
\* of its group on the right that it is leq.
FramesLeq(frames, other) ==
  \A f \in frames : \E g \in other : GroupEqual(f, g) /\ FrameLeq(f, g)

\* Frames::widen_with: the grouped set has finite height, widening is join.
FramesWiden(frames, other) == FramesJoin(frames, other)

\* Frames::difference_with under difference_like_operation: a frame is
\* removed when the frame of its group on the right is above it.
FramesDifference(frames, other) ==
  {f \in frames : ~\E g \in other : GroupEqual(f, g) /\ FrameLeq(f, g)}

\* The mt_assert of leq and equals.
LeqAssertion(value, other) ==
  is_bottom(value) \/ is_bottom(other) \/ value.position_ = other.position_

\* CallPositionFrames::leq.
leq(value, other) == FramesLeq(value.frames_, other.frames_)

\* CallPositionFrames::equals.
equals(value, other) == value.frames_ = other.frames_

\* Variant of widen_with that replaces the frames by the frames of the
\* other value.
widen_with_TakesOther(value, other) ==
  LET position == IF is_bottom(value) THEN other.position_ ELSE value.position_
  IN [position_ |-> position,
      frames_ |-> IF is_bottom(other) THEN value.frames_ ELSE other.frames_,
      aborted |->
        \/ value.aborted
        \/ other.aborted
        \/ is_bottom(value) /\ value.position_ # Null
        \/ ~is_bottom(other) /\ position # other.position_]

\* CallPositionFrames::widen_with.
widen_with(value, other) ==
  LET position == IF is_bottom(value) THEN other.position_ ELSE value.position_
  IN [position_ |-> position,
      frames_ |-> FramesWiden(value.frames_, other.frames_),
      aborted |->
        \/ value.aborted
        \/ other.aborted
        \/ is_bottom(value) /\ value.position_ # Null
        \/ ~is_bottom(other) /\ position # other.position_]

\* mt_expensive_assert(previous.leq(*this) && other.leq(*this)) at the end
\* of join_with and widen_with, with the mt_assert of the two leq.
ExpensiveAssertion(previous, other, value) ==
  /\ LeqAssertion(previous, value)
  /\ leq(previous, value)
  /\ LeqAssertion(other, value)
  /\ leq(other, value)

\* Variant of difference_with that removes the frames that are also on the
\* right.
difference_with_SetMinus(value, other) ==
  LET position == IF is_bottom(value) THEN other.position_ ELSE value.position_
  IN [position_ |-> position,
      frames_ |-> value.frames_ \ other.frames_,
      aborted |->
        \/ value.aborted
        \/ other.aborted
        \/ is_bottom(value) /\ value.position_ # Null
        \/ ~is_bottom(other) /\ position # other.position_]

\* CallPositionFrames::difference_with.
difference_with(value, other) ==
  LET position == IF is_bottom(value) THEN other.position_ ELSE value.position_
  IN [position_ |-> position,
      frames_ |-> FramesDifference(value.frames_, other.frames_),
      aborted |->
        \/ value.aborted
        \/ other.aborted
        \/ is_bottom(value) /\ value.position_ # Null
        \/ ~is_bottom(other) /\ position # other.position_]

(***************************************************************************)
(* transform_kind_with_features.  transform_kind maps a kind to a vector   *)
(* of kinds and add_features maps a kind to a FeatureMayAlwaysSet; both    *)
(* are functions of the model.                                             *)
(***************************************************************************)
\* Frame::with_kind.
with_kind(frame, kind) == [frame EXCEPT !.kind = kind]

\* Frame::add_inferred_features: an add into locally_inferred_features.
add_inferred_features(frame, fs) ==
  [frame EXCEPT
     !.locally_inferred_features =
        IF fs.bottom \/ fs.may = {} THEN @ ELSE FeaturesAdd(@, fs)]

\* The frames bound to a kind in a FramesByKind.
FramesBoundTo(frames, kind) == {frame \in frames : frame.kind = kind}

\* The Frames `new_frames` built for one new kind (lines 639-645).
TransformedFrames(frames, new_kind, add_features) ==
  FramesJoin({}, {add_inferred_features(with_kind(frame, new_kind),
                                        add_features[new_kind]) :
                    frame \in frames})

RECURSIVE TransformNewKinds(_, _, _, _)
\* The loop over new_kinds (lines 636-649): the transformed frames are joined
\* into what the new kind is already bound to.
TransformNewKinds(new_frames_by_kind, frames, new_kinds, add_features) ==
  IF new_kinds = <<>> THEN new_frames_by_kind
  ELSE TransformNewKinds(
         FramesJoin(new_frames_by_kind,
                    TransformedFrames(frames, Head(new_kinds), add_features)),
         frames, Tail(new_kinds), add_features)

\* One iteration of the loop over frames_.bindings() (lines 629-651);
\* `frames` are the frames bound to old_kind.  FramesByKind::set replaces
\* the binding of the kind.
TransformKindStep(new_frames_by_kind, frames, old_kind, transform_kind, add_features) ==
  LET new_kinds == transform_kind[old_kind]
  IN IF new_kinds = <<>>
       THEN new_frames_by_kind
     ELSE IF Len(new_kinds) = 1 /\ new_kinds[1] = old_kind
       THEN (new_frames_by_kind \ FramesBoundTo(new_frames_by_kind, old_kind))
              \cup frames
     ELSE TransformNewKinds(new_frames_by_kind, frames, new_kinds,
                            add_features)

RECURSIVE TransformKinds(_, _, _, _, _)
\* The loop over the bindings, visited in the order of the vector `kinds`.
TransformKinds(new_frames_by_kind, frames, kinds, transform_kind, add_features) ==
  IF kinds = <<>> THEN new_frames_by_kind
  ELSE TransformKinds(
         TransformKindStep(new_frames_by_kind,
                           FramesBoundTo(frames, Head(kinds)), Head(kinds),
                           transform_kind, add_features),
         frames, Tail(kinds), transform_kind, add_features)

\* CallPositionFrames::transform_kind_with_features, the bindings being
\* visited in the order `kinds`.
transform_kind_with_features(value, kinds, transform_kind, add_features) ==
  [position_ |-> value.position_,
   frames_ |-> TransformKinds({}, value.frames_, kinds, transform_kind,
                              add_features),
   aborted |-> value.aborted]

(***************************************************************************)
(* meet_with, narrow_with, add_inferred_features, attach_position,         *)
(* filter_invalid_frames and contains_kind.                                *)
(***************************************************************************)
\* Frames::meet_with: the frames of either side that the frame of their
\* group on the other side is above.
FramesMeet(frames, other) ==
  {f \in frames : \E g \in other : GroupEqual(f, g) /\ FrameLeq(f, g)}
    \cup {g \in other : \E f \in frames : GroupEqual(f, g) /\ FrameLeq(g, f)}

\* Frames::narrow_with.
FramesNarrow(frames, other) == FramesMeet(frames, other)

\* CallPositionFrames::meet_with.
meet_with(value, other) ==
  LET position == IF is_bottom(value) THEN other.position_ ELSE value.position_
  IN [position_ |-> position,
      frames_ |-> FramesMeet(value.frames_, other.frames_),
      aborted |->
        \/ value.aborted
        \/ other.aborted
        \/ is_bottom(value) /\ value.position_ # Null
        \/ ~is_bottom(other) /\ position # other.position_]

\* CallPositionFrames::narrow_with.
narrow_with(value, other) ==
  LET position == IF is_bottom(value) THEN other.position_ ELSE value.position_
  IN [position_ |-> position,
      frames_ |-> FramesNarrow(value.frames_, other.frames_),
      aborted |->
        \/ value.aborted
        \/ other.aborted
        \/ is_bottom(value) /\ value.position_ # Null
        \/ ~is_bottom(other) /\ position # other.position_]

\* FeatureMayAlwaysSet::empty.
FeaturesEmpty(fs) == fs.bottom \/ fs.may = {}

\* Variant of the method that joins the features into the locally inferred
\* features of every frame.
CallPositionFramesAddInferredFeatures_Joins(value, fs) ==
  IF FeaturesEmpty(fs) THEN value
  ELSE [value EXCEPT
          !.frames_ =
             {[frame EXCEPT
                 !.locally_inferred_features = FeaturesJoin(@, fs)] :
                frame \in value.frames_}]

\* CallPositionFrames::add_inferred_features: nothing when the features
\* are empty, else Frame::add_inferred_features mapped over every frame.
CallPositionFramesAddInferredFeatures(value, fs) ==
  IF FeaturesEmpty(fs) THEN value
  ELSE [value EXCEPT
          !.frames_ =
             {add_inferred_features(frame, fs) : frame \in value.frames_}]

\* Frame::is_leaf.
is_leaf(frame) == frame.callee = Null

\* Variant of the frame built by attach_position that keeps the user
\* features where they were.
AttachedFrame_KeepsUserFeatures(frame, position) ==
  Frame(frame.kind, frame.callee_port, Null, Null, position, 0,
        frame.origins, frame.field_origins, features(frame),
        FeatureMayAlwaysSetBottom, frame.user_features, {}, {},
        frame.local_positions, frame.canonical_names)

\* The frame that attach_position builds from a leaf frame (lines 594-616).
AttachedFrame(frame, position) ==
  Frame(frame.kind, frame.callee_port, Null, Null, position, 0,
        frame.origins, frame.field_origins, features(frame),
        IF frame.user_features = {}
          THEN FeatureMayAlwaysSetBottom
          ELSE make_always(frame.user_features),
        {}, {}, {}, frame.local_positions, frame.canonical_names)

RECURSIVE AttachLoop_AllFrames(_, _, _)
\* Variant of the loop of attach_position without the test of is_leaf.
AttachLoop_AllFrames(result, frames, position) ==
  IF frames = <<>> THEN result
  ELSE AttachLoop_AllFrames(
         FramesAdd(result, AttachedFrame(Head(frames), position)),
         Tail(frames), position)

RECURSIVE AttachLoop(_, _, _)
\* The loops of attach_position over the frames (lines 582-620), in the
\* order of the sequence `frames`.
AttachLoop(result, frames, position) ==
  IF frames = <<>> THEN result
  ELSE IF ~is_leaf(Head(frames))
    THEN AttachLoop(result, Tail(frames), position)
  ELSE AttachLoop(FramesAdd(result, AttachedFrame(Head(frames), position)),
                  Tail(frames), position)

\* CallPositionFrames::attach_position.
attach_position(value, frames, position) ==
  [position_ |-> position,
   frames_ |-> AttachLoop({}, frames, position),
   aborted |-> value.aborted]

\* The predicate is_valid of filter_invalid_frames: a callee, a callee port
\* or a kind is invalid when the predicate lists it.
is_valid(predicate, callee, callee_port, kind) ==
  /\ callee \notin predicate.callees
  /\ callee_port.root \notin predicate.roots
  /\ kind \notin predicate.kinds

\* Variant of filter_invalid_frames that looks at the kind only.
filter_invalid_frames_KindOnly(value, predicate) ==
  [value EXCEPT
     !.frames_ = {frame \in value.frames_ : frame.kind \notin predicate.kinds}]

\* CallPositionFrames::filter_invalid_frames: the frames of every kind are
\* filtered; a kind whose frames are all dropped is bound to bottom, which
\* the map does not store.
filter_invalid_frames(value, predicate) ==
  [value EXCEPT
     !.frames_ =
        {frame \in value.frames_ :
           is_valid(predicate, frame.callee, frame.callee_port, frame.kind)}]

\* CallPositionFrames::contains_kind.
contains_kind(value, kind) ==
  \E actual_kind \in {frame.kind : frame \in value.frames_} :
    actual_kind = kind

(***************************************************************************)
(* TaintV2::partition_by_kind.  A TaintV2 is a grouped set of CalleeFrames *)
(* keyed by callee; it is modelled by the grouped set of all its frames,   *)
(* the callee, the call position and the kind being in the group key.      *)
(***************************************************************************)
\* CalleeFrames::partition_by_kind: the frames of one callee by the value
\* their kind maps to.
CalleeFramesPartition(callee_frames, map_kind) ==
  [mapped_value \in {map_kind[frame.kind] : frame \in callee_frames} |->
     {frame \in callee_frames : map_kind[frame.kind] = mapped_value}]

\* Variant of the loop body that stores the partition of the callee in the
\* bucket instead of adding it to the bucket.
PartitionStep_Overwrites(result, callee_frames, map_kind) ==
  LET callee_frames_partitioned == CalleeFramesPartition(callee_frames, map_kind)
  IN [mapped_value \in DOMAIN result \cup DOMAIN callee_frames_partitioned |->
        IF mapped_value \in DOMAIN callee_frames_partitioned
          THEN callee_frames_partitioned[mapped_value]
          ELSE result[mapped_value]]

\* One iteration of the loop over set_ (lines 223-236): the partitions of
\* the callee are added to the buckets found, or to bottom.
PartitionStep(result, callee_frames, map_kind) ==
  LET callee_frames_partitioned == CalleeFramesPartition(callee_frames, map_kind)
  IN [mapped_value \in DOMAIN result \cup DOMAIN callee_frames_partitioned |->
        IF mapped_value \in DOMAIN callee_frames_partitioned
          THEN LET existing_or_bottom ==
                     IF mapped_value \in DOMAIN result
                       THEN result[mapped_value] ELSE {}
               IN FramesJoin(existing_or_bottom,
                             callee_frames_partitioned[mapped_value])
          ELSE result[mapped_value]]

RECURSIVE PartitionLoop(_, _, _, _)
\* The loop over the CalleeFrames of set_, visited in the order `callees`.
PartitionLoop(result, taint, callees, map_kind) ==
  IF callees = <<>> THEN result
  ELSE PartitionLoop(
         PartitionStep(result,
                       {frame \in taint : frame.callee = Head(callees)},
                       map_kind),
         taint, Tail(callees), map_kind)

\* TaintV2::partition_by_kind(map_kind).
partition_by_kind(taint, callees, map_kind) ==
  PartitionLoop([mapped_value \in {} |-> {}], taint, callees, map_kind)

(***************************************************************************)
(* propagate: the arguments of one call of CallPositionFrames::propagate.  *)
(***************************************************************************)
PropagateArguments(callee, callee_port, call_position, maximum_source_sink_distance, source_register_types, source_constant_arguments) ==
  [callee |-> callee,
   callee_port |-> callee_port,
   call_position |-> call_position,
   maximum_source_sink_distance |-> maximum_source_sink_distance,
   source_register_types |-> source_register_types,
   source_constant_arguments |-> source_constant_arguments]

\* Variant of the validity test that forgets to test the kind of the root.
InvalidPort_PositionOnly(port, size) == parameter_position(port) >= size

\* A port of a via_type_of / via_value_of set that cannot be materialized
\* against a vector of `size` entries.
InvalidPort(port, size) ==
  ~is_argument(port) \/ parameter_position(port) >= size

RECURSIVE MaterializeTypes(_, _, _)
\* The loop of materialize_via_type_of_ports over the ports of the frame.
\* `state` holds via_type_of_features_added and inferred_features.  Only the
\* length of the vector and its single element are ever read, so the order
\* in which the ports are visited is immaterial.
MaterializeTypes(ports, source_register_types, state) ==
  IF ports = {} THEN state
  ELSE LET port == CHOOSE port \in ports : TRUE
           rest == ports \ {port}
       IN IF InvalidPort(port, Len(source_register_types))
            THEN MaterializeTypes(rest, source_register_types, state)
            ELSE LET feature == get_via_type_of_feature(
                       source_register_types[parameter_position(port) + 1])
                 IN MaterializeTypes(rest, source_register_types,
                      [via_type_of_features_added |->
                         Append(state.via_type_of_features_added, feature),
                       inferred_features |->
                         add_always(state.inferred_features, {feature})])

materialize_via_type_of_ports(frame, source_register_types, via_type_of_features_added, inferred_features) ==
  MaterializeTypes(frame.via_type_of_ports, source_register_types,
    [via_type_of_features_added |-> via_type_of_features_added,
     inferred_features |-> inferred_features])

RECURSIVE MaterializeValues(_, _, _)
\* The loop of materialize_via_value_of_ports over the ports of the frame.
MaterializeValues(ports, source_constant_arguments, inferred_features) ==
  IF ports = {} THEN inferred_features
  ELSE LET port == CHOOSE port \in ports : TRUE
           rest == ports \ {port}
       IN IF InvalidPort(port, Len(source_constant_arguments))
            THEN MaterializeValues(rest, source_constant_arguments,
                                   inferred_features)
            ELSE MaterializeValues(rest, source_constant_arguments,
                   add_always(inferred_features,
                     {get_via_value_of_feature(
                        source_constant_arguments[parameter_position(port) + 1])}))

materialize_via_value_of_ports(frame, source_constant_arguments, inferred_features) ==
  MaterializeValues(frame.via_value_of_ports, source_constant_arguments,
                    inferred_features)

\* The local variables of propagate_frames before its loop.
PropagateFramesStart ==
  [distance |-> IntMax,
   origins |-> {},
   field_origins |-> {},
   inferred_features |-> FeatureMayAlwaysSetBottom,
   via_type_of_features_added |-> <<>>]

\* Variants of the loop body of propagate_frames, each with one slip.
PropagateFramesStep_LastDistance(arguments, source_constant_arguments, state, frame) ==
  IF frame.distance >= arguments.maximum_source_sink_distance
    THEN state
    ELSE LET types == materialize_via_type_of_ports(
                        frame, arguments.source_register_types,
                        state.via_type_of_features_added,
                        FeaturesJoin(state.inferred_features, features(frame)))
         IN [distance |-> frame.distance + 1,
             origins |-> state.origins \cup frame.origins,
             field_origins |-> state.field_origins \cup frame.field_origins,
             inferred_features |->
               materialize_via_value_of_ports(
                 frame, source_constant_arguments, types.inferred_features),
             via_type_of_features_added |-> types.via_type_of_features_added]

PropagateFramesStep_JoinsDropped(arguments, source_constant_arguments, state, frame) ==
  IF frame.distance >= arguments.maximum_source_sink_distance
    THEN [state EXCEPT !.origins = @ \cup frame.origins]
    ELSE LET types == materialize_via_type_of_ports(
                        frame, arguments.source_register_types,
                        state.via_type_of_features_added,
                        FeaturesJoin(state.inferred_features, features(frame)))
         IN [distance |-> Min(state.distance, frame.distance + 1),
             origins |-> state.origins \cup frame.origins,
             field_origins |-> state.field_origins \cup frame.field_origins,
             inferred_features |->
               materialize_via_value_of_ports(
                 frame, source_constant_arguments, types.inferred_features),
             via_type_of_features_added |-> types.via_type_of_features_added]

PropagateFramesStep_OffByOne(arguments, source_constant_arguments, state, frame) ==
  IF frame.distance > arguments.maximum_source_sink_distance
    THEN state
    ELSE LET types == materialize_via_type_of_ports(
                        frame, arguments.source_register_types,
                        state.via_type_of_features_added,
                        FeaturesJoin(state.inferred_features, features(frame)))
         IN [distance |-> Min(state.distance, frame.distance + 1),
             origins |-> state.origins \cup frame.origins,
             field_origins |-> state.field_origins \cup frame.field_origins,
             inferred_features |->
               materialize_via_value_of_ports(
                 frame, source_constant_arguments, types.inferred_features),
             via_type_of_features_added |-> types.via_type_of_features_added]

\* One iteration of the loop of propagate_frames.
PropagateFramesStep(arguments, source_constant_arguments, state, frame) ==
  IF frame.distance >= arguments.maximum_source_sink_distance
    THEN state
    ELSE LET types == materialize_via_type_of_ports(
                        frame, arguments.source_register_types,
                        state.via_type_of_features_added,
                        FeaturesJoin(state.inferred_features, features(frame)))
         IN [distance |-> Min(state.distance, frame.distance + 1),
             origins |-> state.origins \cup frame.origins,
             field_origins |-> state.field_origins \cup frame.field_origins,
             inferred_features |->
               materialize_via_value_of_ports(
                 frame, source_constant_arguments, types.inferred_features),
             via_type_of_features_added |-> types.via_type_of_features_added]

RECURSIVE PropagateFramesLoop(_, _, _, _)
PropagateFramesLoop(arguments, source_constant_arguments, state, frames) ==
  IF frames = <<>> THEN state
  ELSE PropagateFramesLoop(
         arguments, source_constant_arguments,
         PropagateFramesStep(arguments, source_constant_arguments, state,
                             Head(frames)),
         Tail(frames))

\* Variant of the frame built by propagate_frames that keeps the features
\* as locally inferred.
PropagatedFrame_KeepsLocal(arguments, kind, state) ==
  Frame(kind,
        arguments.callee_port,
        arguments.callee,
        Null,
        arguments.call_position,
        state.distance,
        state.origins,
        state.field_origins,
        state.inferred_features,
        state.inferred_features,
        {},
        {},
        {},
        {},
        {})

\* The frame built at the end of propagate_frames.
PropagatedFrame(arguments, kind, state) ==
  Frame(kind,
        arguments.callee_port,
        arguments.callee,
        Null,
        arguments.call_position,
        state.distance,
        state.origins,
        state.field_origins,
        state.inferred_features,
        FeatureMayAlwaysSetBottom,
        {},
        {},
        {},
        {},
        {})

\* CallPositionFrames::propagate_frames on the frames of one kind, in the
\* order in which they are visited.  Returns the frame, the vector
\* via_type_of_features_added and whether mt_assert failed.
propagate_frames(arguments, source_constant_arguments, frames) ==
  IF Len(frames) = 0
    THEN [frame |-> FrameBottom, via_type_of_features_added |-> <<>>,
          aborted |-> FALSE]
    ELSE LET state == PropagateFramesLoop(
                        arguments, source_constant_arguments,
                        PropagateFramesStart, frames)
         IN IF state.distance = IntMax
              THEN [frame |-> FrameBottom,
                    via_type_of_features_added |->
                      state.via_type_of_features_added,
                    aborted |-> FALSE]
              ELSE [frame |-> PropagatedFrame(arguments, Head(frames).kind,
                                              state),
                    via_type_of_features_added |->
                      state.via_type_of_features_added,
                    aborted |->
                      state.distance > arguments.maximum_source_sink_distance]

\* Variant of the instantiation loop that keeps a template that fails to
\* instantiate as it is.
InstantiatedNames_KeepsFailed(canonical_names, callee, via_type_of_features_added) ==
  UNION {IF instantiate(canonical_name, callee, via_type_of_features_added) = {}
           THEN {canonical_name}
           ELSE instantiate(canonical_name, callee, via_type_of_features_added) :
           canonical_name \in canonical_names}

\* The names of a frame that instantiate for the callee.
InstantiatedNames(canonical_names, callee, via_type_of_features_added) ==
  UNION {instantiate(canonical_name, callee, via_type_of_features_added) :
           canonical_name \in canonical_names}

\* Variants of the frame added for a CRTEX frame: one keeps the port of the
\* callee, one keeps the propagated distance.
CrtexFrame_KeepsPort(kind, propagated, instantiated_names) ==
  Frame(kind,
        propagated.callee_port,
        propagated.callee,
        propagated.field_callee,
        propagated.call_position,
        0,
        propagated.origins,
        propagated.field_origins,
        propagated.inferred_features,
        propagated.locally_inferred_features,
        propagated.user_features,
        propagated.via_type_of_ports,
        propagated.via_value_of_ports,
        propagated.local_positions,
        instantiated_names)

CrtexFrame_KeepsNames(kind, propagated, instantiated_names) ==
  Frame(kind,
        canonicalize_for_method(propagated.callee_port, propagated.callee),
        propagated.callee,
        propagated.field_callee,
        propagated.call_position,
        0,
        propagated.origins,
        propagated.field_origins,
        propagated.inferred_features,
        propagated.locally_inferred_features,
        propagated.user_features,
        propagated.via_type_of_ports,
        propagated.via_value_of_ports,
        propagated.local_positions,
        propagated.canonical_names)

\* The frame that propagate_crtex_frames adds for a propagated frame.
CrtexFrame(kind, propagated, instantiated_names) ==
  Frame(kind,
        canonicalize_for_method(propagated.callee_port, propagated.callee),
        propagated.callee,
        propagated.field_callee,
        propagated.call_position,
        0,
        propagated.origins,
        propagated.field_origins,
        propagated.inferred_features,
        propagated.locally_inferred_features,
        propagated.user_features,
        propagated.via_type_of_ports,
        propagated.via_value_of_ports,
        propagated.local_positions,
        instantiated_names)

\* One iteration of the loop of propagate_crtex_frames.
PropagateCrtexStep(arguments, kind, result, frame) ==
  LET propagated == propagate_frames(arguments, <<>>, <<frame>>)
      instantiated_names ==
        InstantiatedNames(frame.canonical_names, propagated.frame.callee,
                          propagated.via_type_of_features_added)
  IN IF frame_is_bottom(propagated.frame)
       THEN result
     ELSE IF frame.canonical_names = {}
       THEN [result EXCEPT !.aborted = @ \/ propagated.aborted]
     ELSE IF instantiated_names # {}
       THEN LET added == add(result, CrtexFrame(kind, propagated.frame,
                                                instantiated_names))
            IN [added EXCEPT !.aborted = @ \/ propagated.aborted]
     ELSE [result EXCEPT !.aborted = @ \/ propagated.aborted]

RECURSIVE PropagateCrtexLoop(_, _, _, _)
\* Variant of the loop of propagate_crtex_frames that stops at a frame
\* without canonical names instead of skipping it.
PropagateCrtexLoop_Break(arguments, kind, result, frames) ==
  IF frames = <<>> THEN result
  ELSE IF Head(frames).canonical_names = {} THEN result
  ELSE PropagateCrtexLoop(
         arguments, kind,
         PropagateCrtexStep(arguments, kind, result, Head(frames)),
         Tail(frames))

PropagateCrtexLoop(arguments, kind, result, frames) ==
  IF frames = <<>> THEN result
  ELSE PropagateCrtexLoop(
         arguments, kind,
         PropagateCrtexStep(arguments, kind, result, Head(frames)),
         Tail(frames))

\* CallPositionFrames::propagate_crtex_frames.
propagate_crtex_frames(arguments, frames) ==
  IF Len(frames) = 0
    THEN CallPositionFramesBottom
    ELSE PropagateCrtexLoop(arguments, Head(frames).kind,
                            CallPositionFramesBottom, frames)

\* Variant of the split of propagate that hands every frame of the kind to
\* the non-CRTEX collapse.
FramesOfKind_Unsplit(frames, kind, crtex) ==
  LET Selected(frame) ==
        /\ frame.kind = kind
        /\ crtex => is_crtex_producer_declaration(frame)
  IN SelectSeq(frames, Selected)

\* The frames of `frames` (a sequence) of one kind that are, or are not,
\* CRTEX producer declarations, in the order of `frames`.
FramesOfKind(frames, kind, crtex) ==
  LET Selected(frame) ==
        frame.kind = kind /\ is_crtex_producer_declaration(frame) = crtex
  IN SelectSeq(frames, Selected)

\* One iteration of the loop of propagate over the kinds.
PropagateKind(arguments, result, frames, kind) ==
  LET joined == join_with(result,
                  propagate_crtex_frames(arguments,
                                         FramesOfKind(frames, kind, TRUE)))
      non_crtex_frame ==
        propagate_frames(arguments, arguments.source_constant_arguments,
                         FramesOfKind(frames, kind, FALSE))
      added == IF frame_is_bottom(non_crtex_frame.frame)
                 THEN joined
                 ELSE add(joined, non_crtex_frame.frame)
  IN [added EXCEPT !.aborted = @ \/ non_crtex_frame.aborted]

RECURSIVE PropagateKinds(_, _, _, _)
\* The kinds are visited in the order of their first frame in `frames`.
PropagateKinds(arguments, result, frames, remaining) ==
  IF remaining = <<>> THEN result
  ELSE LET kind == Head(remaining).kind
           NotOfKind(frame) == frame.kind # kind
       IN PropagateKinds(arguments,
                         PropagateKind(arguments, result, frames, kind),
                         frames,
                         SelectSeq(remaining, NotOfKind))

\* CallPositionFrames::propagate of the value whose frames are visited in
\* the order of the sequence `frames`.
propagate(arguments, frames) ==
  IF frames = <<>>
    THEN CallPositionFramesBottom
    ELSE PropagateKinds(arguments, CallPositionFramesBottom, frames, frames)

(***************************************************************************)
(* The frames the model builds its values from.                            *)
(***************************************************************************)
\* test::make_frame with default properties.
make_frame(kind) ==
  Frame(kind, AccessPath(LeafRoot, <<>>), Null, Null, InputPosition, 0, {},
        {}, FeatureMayAlwaysSetBottom, FeatureMayAlwaysSetBottom, {}, {}, {},
        {}, {})

ArgumentPort(i) == AccessPath(Argument(i), <<>>)

\* Non-leaf frames at every distance, their origin alternating with the
\* distance, and one frame of the second kind.
DistanceFrames ==
  {[make_frame("TestSinkOne") EXCEPT
      !.callee = "one", !.callee_port = ArgumentPort(0),
      !.distance = distance,
      !.origins = {IF distance % 2 = 1 THEN "one" ELSE "two"}] :
     distance \in 1..MaxDistance}
  \cup
  {[make_frame("TestSinkTwo") EXCEPT
      !.callee = "one", !.callee_port = ArgumentPort(0),
      !.distance = 1, !.origins = {"one"}]}

\* Frames that carry features and local positions; the first one is a leaf.
FeatureFrames ==
  {[make_frame("TestSinkOne") EXCEPT
      !.origins = {"one"},
      !.inferred_features = make_always({Feature("FeatureOne")})],
   [make_frame("TestSinkOne") EXCEPT
      !.callee = "two", !.distance = 2,
      !.inferred_features = make_may({Feature("FeatureOne")}),
      !.locally_inferred_features = make_always({Feature("FeatureTwo")}),
      !.user_features = {Feature("UserFeatureOne")},
      !.local_positions = {"Test.java:2"}]}

\* Frames with via-type-of and via-value-of ports, some of them invalid.
PortFrames ==
  {[make_frame("TestSinkOne") EXCEPT
      !.callee = "two", !.distance = 1,
      !.field_callee = "field_one",
      !.field_origins = {"field_one"},
      !.via_type_of_ports = {Argument(0)},
      !.via_value_of_ports = {Argument(1)}],
   [make_frame("TestSinkOne") EXCEPT
      !.callee = "two", !.callee_port = ArgumentPort(1), !.distance = 1,
      !.origins = {"one"},
      !.via_type_of_ports = {Argument(1), ReturnRoot},
      !.via_value_of_ports = {Argument(0), ReturnRoot}]}

\* CRTEX producer declarations.
CrtexFrames ==
  {[make_frame("TestSinkOne") EXCEPT
      !.callee_port = AccessPath(AnchorRoot, <<>>),
      !.origins = {"one"},
      !.canonical_names = {TemplateValue(LeafNameMarker)}],
   [make_frame("TestSinkOne") EXCEPT
      !.callee_port = AccessPath(AnchorRoot, <<>>),
      !.origins = {"two"},
      !.user_features = {Feature("UserFeatureOne")},
      !.canonical_names = {TemplateValue("constant value"),
                           TemplateValue(ViaTypeOfMarker)}],
   [make_frame("TestSinkOne") EXCEPT
      !.callee_port = AccessPath(ProducerRoot, <<>>),
      !.origins = {"two"},
      !.inferred_features = make_always({Feature("FeatureOne")}),
      !.canonical_names = {TemplateValue(LeafNameMarker)}],
   [make_frame("TestSinkOne") EXCEPT
      !.callee_port = AccessPath(AnchorRoot, <<>>),
      !.origins = {"one"}],
   [make_frame("TestSinkOne") EXCEPT
      !.callee_port = AccessPath(AnchorRoot, <<>>),
      !.callee = "one",
      !.distance = MaxDistance,
      !.canonical_names = {TemplateValue(LeafNameMarker)}],
   [make_frame("TestSinkOne") EXCEPT
      !.callee_port = AccessPath(ProducerRoot, <<>>),
      !.via_type_of_ports = {Argument(0)},
      !.via_value_of_ports = {Argument(0)},
      !.canonical_names = {TemplateValue(ViaTypeOfMarker)}]}

FrameUniverse ==
  DistanceFrames \cup FeatureFrames \cup PortFrames \cup CrtexFrames

\* The runtime types and the constant values of the argument registers of
\* the call site; the second register holds no constant.
RegisterTypeNames == <<"LTypeOne;", "LTypeTwo;">>
RegisterTypes(n) == [i \in 1..n |-> RegisterTypeNames[((i - 1) % 2) + 1]]
ConstantArguments(n) == [i \in 1..n |-> IF i % 2 = 1 THEN "constant" ELSE Null]

\* The call sites of the model: the callee and the port of the callee.
CallSites ==
  {<<"two", ArgumentPort(0)>>, <<"one", AccessPath(ReturnRoot, <<>>)>>}

\* The orders in which a hashed set can be iterated.
RECURSIVE Orders(_)
Orders(set) ==
  IF set = {} THEN {<<>>}
  ELSE UNION {{<<x>> \o order : order \in Orders(set \ {x})} : x \in set}

\* partition_map groups the frames by kind and propagate splits the frames
\* of a kind into its CRTEX and its non-CRTEX vector, each in iteration
\* order.  An iteration is therefore given by the order of the kinds and
\* the order inside each vector: the kinds one after the other, the CRTEX
\* frames of a kind before its other frames.
Partitioned(order) ==
  /\ \A i, j, k \in 1..Len(order) :
       i < j /\ j < k /\ order[i].kind = order[k].kind =>
         order[j].kind = order[i].kind
  /\ \A i, j \in 1..Len(order) :
       i < j /\ order[i].kind = order[j].kind
         /\ is_crtex_producer_declaration(order[j]) =>
           is_crtex_producer_declaration(order[i])

VisitOrders(frames) ==
  {order \in Orders(frames) : Partitioned(order)}

(***************************************************************************)
(* The frames, kind transformations and kind maps of the lattice           *)
(* operations.                                                             *)
(***************************************************************************)
\* Two frames of one group with different origins and features, the first
\* frame at a larger distance, the second frame with the other kind, a leaf
\* without call position, a frame at another call position and two leaves
\* with features.
LatticeFrameOne ==
  [make_frame("TestSinkOne") EXCEPT
     !.callee = "one", !.callee_port = ArgumentPort(0), !.distance = 1,
     !.origins = {"one"},
     !.inferred_features = make_always({Feature("FeatureOne")})]

LatticeFrameTwo ==
  [LatticeFrameOne EXCEPT
     !.origins = {"two"},
     !.inferred_features = make_always({Feature("FeatureTwo")}),
     !.user_features = {Feature("UserFeatureOne")}]

\* A leaf at the call position of the other frames, with features of the
\* three sorts, a via-type-of port and a local position.
LatticeLeaf ==
  [make_frame("TestSinkTwo") EXCEPT
     !.callee_port = ArgumentPort(1),
     !.origins = {"two"},
     !.field_origins = {"field"},
     !.inferred_features = make_always({Feature("FeatureOne")}),
     !.locally_inferred_features = make_may({Feature("FeatureTwo")}),
     !.user_features = {Feature("UserFeatureOne")},
     !.via_type_of_ports = {Argument(0)},
     !.local_positions = {"Test.java:2"}]

\* A leaf of the first kind at the call position of the other frames.
LatticeLeafTwo ==
  [make_frame("TestSinkOne") EXCEPT
     !.origins = {"two"},
     !.inferred_features = make_always({Feature("FeatureTwo")})]

LatticeFrames ==
  {LatticeFrameOne,
   LatticeFrameTwo,
   [LatticeFrameOne EXCEPT !.distance = 2],
   [LatticeFrameTwo EXCEPT !.kind = "TestSinkTwo"],
   [make_frame("TestSinkOne") EXCEPT
      !.call_position = Null, !.origins = {"one"}],
   [LatticeFrameOne EXCEPT !.call_position = CallPosition],
   LatticeLeaf,
   LatticeLeafTwo}

TransformedKind == "TransformedKind"
AllKinds == Kinds \cup {TransformedKind}

\* transform_kind: drop a kind and keep the others, send every kind to a
\* new kind, send every kind to a kind that is kept, keep a kind and
\* duplicate it under a new kind.
KindTransforms ==
  {[kind \in AllKinds |-> IF kind = "TestSinkOne" THEN <<>> ELSE <<kind>>],
   [kind \in AllKinds |-> <<TransformedKind>>],
   [kind \in AllKinds |-> <<"TestSinkTwo">>],
   [kind \in AllKinds |->
      IF kind = "TestSinkOne" THEN <<kind, TransformedKind>> ELSE <<kind>>]}

\* add_features: nothing, or a feature for every kind.
FeatureAdditions ==
  {[kind \in AllKinds |-> FeatureMayAlwaysSetBottom],
   [kind \in AllKinds |-> make_always({Feature("FeatureThree")})]}

\* map_kind: the kind itself, or one value for every kind.
KindMaps ==
  {[kind \in AllKinds |-> kind], [kind \in AllKinds |-> "AnyKind"]}

\* is_valid: everything is valid, a callee is not, a kind is not, a port is
\* not, nothing is.
Predicate(callees, roots, kinds) ==
  [callees |-> callees, roots |-> roots, kinds |-> kinds]

AllValid == Predicate({}, {}, {})

Predicates ==
  {AllValid,
   Predicate({"one"}, {}, {}),
   Predicate({}, {}, {"TestSinkOne"}),
   Predicate({}, {Argument(1)}, {}),
   Predicate({}, {}, AllKinds)}

\* The features given to add_inferred_features: bottom, empty, a new
\* always-feature, an always-feature that a frame holds as may-feature, and
\* a new may-feature with a new always-feature.
InferredFeatures ==
  {FeatureMayAlwaysSetBottom,
   MayAlways({}, {}),
   make_always({Feature("FeatureThree")}),
   make_always({Feature("FeatureTwo")}),
   MayAlways({Feature("FeatureThree"), Feature("FeatureFour")},
             {Feature("FeatureThree")})}

\* The positions given to attach_position.
Positions == {InputPosition, CallPosition}

(***************************************************************************)
(* The state machines.  In Spec a CallPositionFrames value is built with   *)
(* `add`, then propagated across one call site.  In Lattice three values   *)
(* are built with `add` and the operations of the lattice are applied to   *)
(* the first one.                                                          *)
(***************************************************************************)
VARIABLES
  position_,   \* CallPositionFrames::position_
  frames_,     \* CallPositionFrames::frames_
  added,       \* number of calls of add
  pc,          \* "build" or "propagated"
  arguments,   \* the arguments of propagate
  visit,       \* the order in which propagate iterated over frames_
  result,      \* the value returned by propagate
  value,       \* the value the operations are called on (*this)
  other,       \* the argument of the binary operations
  third,       \* a third value
  previous,    \* `value` before the last operation
  operation,   \* the last operation and its arguments
  buckets,     \* the map returned by partition_by_kind
  adds,        \* number of calls of add on value, other and third
  steps        \* number of operations applied after the values were built

propagate_vars == <<position_, frames_, added, pc, arguments, visit, result>>

lattice_vars ==
  <<value, other, third, previous, operation, buckets, adds, steps>>

vars ==
  <<position_, frames_, added, pc, arguments, visit, result, value, other, third, previous, operation, buckets, adds, steps>>

NoArguments ==
  PropagateArguments(Null, AccessPath(LeafRoot, <<>>), Null, 0, <<>>, <<>>)

\* The record of an operation: its name and its arguments.
Operation(name, frame, kinds, transform_kind, add_features, map_kind) ==
  [name |-> name, frame |-> frame, kinds |-> kinds,
   transform_kind |-> transform_kind, add_features |-> add_features,
   map_kind |-> map_kind, is_valid |-> AllValid, position |-> Null,
   features |-> FeatureMayAlwaysSetBottom, frames |-> <<>>]

NoTransform == [kind \in AllKinds |-> <<kind>>]
NoFeatures == [kind \in AllKinds |-> FeatureMayAlwaysSetBottom]
NoMap == [kind \in AllKinds |-> kind]
NoBuckets == [mapped_value \in {} |-> {}]

Binary(name) ==
  Operation(name, FrameBottom, <<>>, NoTransform, NoFeatures, NoMap)

Init ==
  /\ position_ = Null
  /\ frames_ = {}
  /\ added = 0
  /\ pc = "build"
  /\ arguments = NoArguments
  /\ visit = <<>>
  /\ result = CallPositionFramesBottom
  /\ value = CallPositionFramesBottom
  /\ other = CallPositionFramesBottom
  /\ third = CallPositionFramesBottom
  /\ previous = CallPositionFramesBottom
  /\ operation = Binary("none")
  /\ buckets = NoBuckets
  /\ adds = 0
  /\ steps = 0

\* frames_.add(frame): the frame has the call position of the value.
Add(frame) ==
  /\ pc = "build"
  /\ added < MaxFrames
  /\ position_ = Null \/ position_ = frame.call_position
  /\ LET new_value == add(CallPositionFrames(position_, frames_), frame)
     IN /\ position_' = new_value.position_
        /\ frames_' = new_value.frames_
  /\ added' = added + 1
  /\ UNCHANGED <<pc, arguments, visit, result>>
  /\ UNCHANGED lattice_vars

\* result = frames.propagate(callee, callee_port, call_position, ...).
Propagate(callee, callee_port, maximum_source_sink_distance, registers, order) ==
  /\ pc = "build"
  /\ arguments' = PropagateArguments(
                    callee, callee_port, CallPosition,
                    maximum_source_sink_distance,
                    RegisterTypes(registers), ConstantArguments(registers))
  /\ visit' = order
  /\ result' = propagate(arguments', order)
  /\ pc' = "propagated"
  /\ UNCHANGED <<position_, frames_, added>>
  /\ UNCHANGED lattice_vars

Next ==
  \/ \E frame \in FrameUniverse : Add(frame)
  \/ \E site \in CallSites,
        maximum_source_sink_distance \in 0..(MaxDistance + 1),
        registers \in 0..MaxArgs,
        order \in VisitOrders(frames_) :
       Propagate(site[1], site[2], maximum_source_sink_distance, registers,
                 order)

Spec == Init /\ [][Next]_vars

\* Frames of one kind at the distances next to the largest int, and a
\* frame at distance 1.
LimitFrames ==
  {[make_frame("TestSinkOne") EXCEPT
      !.callee = "one", !.callee_port = ArgumentPort(0),
      !.distance = distance, !.origins = {origin}] :
     distance \in {1, IntMax - 2, IntMax - 1}, origin \in Methods}

\* The values of maximum_source_sink_distance next to the largest int.
LimitDistances == {2, IntMax - 1, IntMax}

\* propagate with frames and a maximum distance next to the largest int.
NextLimits ==
  \/ \E frame \in LimitFrames : Add(frame)
  \/ \E site \in CallSites,
        maximum_source_sink_distance \in LimitDistances,
        order \in VisitOrders(frames_) :
       Propagate(site[1], site[2], maximum_source_sink_distance, 0, order)

Limits == Init /\ [][NextLimits]_vars

\* No mt_assert has failed: the program is still running.
Running == ~value.aborted /\ ~other.aborted /\ ~third.aborted

\* value.add(frame).  A failed mt_assert ends the program before the frame
\* is stored.
AddValue(frame) ==
  /\ Running
  /\ steps = 0
  /\ adds < MaxOperandFrames
  /\ other = CallPositionFramesBottom
  /\ third = CallPositionFramesBottom
  /\ LET new_value == add(value, frame)
     IN value' = IF new_value.aborted
                   THEN [value EXCEPT !.aborted = TRUE]
                   ELSE new_value
  /\ previous' = value
  /\ operation' = Operation("add", frame, <<>>, NoTransform, NoFeatures, NoMap)
  /\ adds' = adds + 1
  /\ UNCHANGED <<other, third, buckets, steps>>
  /\ UNCHANGED propagate_vars

\* other.add(frame), the frame having the call position of the value.
AddOther(frame) ==
  /\ Running
  /\ steps = 0
  /\ adds < MaxOperandFrames
  /\ third = CallPositionFramesBottom
  /\ other.position_ = Null \/ other.position_ = frame.call_position
  /\ other' = add(other, frame)
  /\ adds' = adds + 1
  /\ UNCHANGED <<value, third, previous, operation, buckets, steps>>
  /\ UNCHANGED propagate_vars

\* third.add(frame), the frame having the call position of the value.
AddThird(frame) ==
  /\ Running
  /\ steps = 0
  /\ adds < MaxOperandFrames
  /\ third.position_ = Null \/ third.position_ = frame.call_position
  /\ third' = add(third, frame)
  /\ adds' = adds + 1
  /\ UNCHANGED <<value, other, previous, operation, buckets, steps>>
  /\ UNCHANGED propagate_vars

\* value.join_with(other).
JoinWith ==
  /\ Running
  /\ steps < MaxSteps
  /\ previous' = value
  /\ value' = join_with(value, other)
  /\ operation' = Binary("join_with")
  /\ steps' = steps + 1
  /\ UNCHANGED <<other, third, buckets, adds>>
  /\ UNCHANGED propagate_vars

\* value.widen_with(other).
WidenWith ==
  /\ Running
  /\ steps < MaxSteps
  /\ previous' = value
  /\ value' = widen_with(value, other)
  /\ operation' = Binary("widen_with")
  /\ steps' = steps + 1
  /\ UNCHANGED <<other, third, buckets, adds>>
  /\ UNCHANGED propagate_vars

\* value.difference_with(other).
DifferenceWith ==
  /\ Running
  /\ steps < MaxSteps
  /\ previous' = value
  /\ value' = difference_with(value, other)
  /\ operation' = Binary("difference_with")
  /\ steps' = steps + 1
  /\ UNCHANGED <<other, third, buckets, adds>>
  /\ UNCHANGED propagate_vars

\* value = value.transform_kind_with_features(transform_kind, add_features),
\* the bindings of frames_ being visited in the order `kinds`.
TransformKindWithFeatures(kinds, transform_kind, add_features) ==
  /\ Running
  /\ steps < MaxSteps
  /\ previous' = value
  /\ value' = transform_kind_with_features(value, kinds, transform_kind,
                                           add_features)
  /\ operation' = Operation("transform_kind_with_features", FrameBottom,
                            kinds, transform_kind, add_features, NoMap)
  /\ steps' = steps + 1
  /\ UNCHANGED <<other, third, buckets, adds>>
  /\ UNCHANGED propagate_vars

\* value.meet_with(other).
MeetWith ==
  /\ Running
  /\ steps < MaxSteps
  /\ previous' = value
  /\ value' = meet_with(value, other)
  /\ operation' = Binary("meet_with")
  /\ steps' = steps + 1
  /\ UNCHANGED <<other, third, buckets, adds>>
  /\ UNCHANGED propagate_vars

\* value.narrow_with(other).
NarrowWith ==
  /\ Running
  /\ steps < MaxSteps
  /\ previous' = value
  /\ value' = narrow_with(value, other)
  /\ operation' = Binary("narrow_with")
  /\ steps' = steps + 1
  /\ UNCHANGED <<other, third, buckets, adds>>
  /\ UNCHANGED propagate_vars

\* value.add_inferred_features(fs).
AddInferredFeatures(fs) ==
  /\ Running
  /\ steps < MaxSteps
  /\ previous' = value
  /\ value' = CallPositionFramesAddInferredFeatures(value, fs)
  /\ operation' = [Binary("add_inferred_features") EXCEPT !.features = fs]
  /\ steps' = steps + 1
  /\ UNCHANGED <<other, third, buckets, adds>>
  /\ UNCHANGED propagate_vars

\* value = value.attach_position(position), the frames being visited in
\* the order `frames`.
AttachPosition(frames, position) ==
  /\ Running
  /\ steps < MaxSteps
  /\ previous' = value
  /\ value' = attach_position(value, frames, position)
  /\ operation' = [Binary("attach_position") EXCEPT
                     !.frames = frames, !.position = position]
  /\ steps' = steps + 1
  /\ UNCHANGED <<other, third, buckets, adds>>
  /\ UNCHANGED propagate_vars

\* value.filter_invalid_frames(is_valid).
FilterInvalidFrames(predicate) ==
  /\ Running
  /\ steps < MaxSteps
  /\ previous' = value
  /\ value' = filter_invalid_frames(value, predicate)
  /\ operation' = [Binary("filter_invalid_frames") EXCEPT
                     !.is_valid = predicate]
  /\ steps' = steps + 1
  /\ UNCHANGED <<other, third, buckets, adds>>
  /\ UNCHANGED propagate_vars

\* The TaintV2 that holds the frames of the three values.
Taint == FramesJoin(FramesJoin(value.frames_, other.frames_), third.frames_)

\* buckets = taint.partition_by_kind(map_kind), the CalleeFrames of the
\* taint being visited in the order `callees`.
PartitionByKind(callees, map_kind) ==
  /\ Running
  /\ steps < MaxSteps
  /\ buckets' = partition_by_kind(Taint, callees, map_kind)
  /\ previous' = value
  /\ operation' = Operation("partition_by_kind", FrameBottom, callees,
                            NoTransform, NoFeatures, map_kind)
  /\ steps' = steps + 1
  /\ UNCHANGED <<value, other, third, adds>>
  /\ UNCHANGED propagate_vars

NextLattice ==
  \/ \E frame \in LatticeFrames : AddValue(frame)
  \/ \E frame \in LatticeFrames : AddOther(frame)
  \/ \E frame \in LatticeFrames : AddThird(frame)
  \/ JoinWith
  \/ WidenWith
  \/ DifferenceWith
  \/ MeetWith
  \/ NarrowWith
  \/ \E fs \in InferredFeatures : AddInferredFeatures(fs)
  \/ \E frames \in Orders(value.frames_), position \in Positions :
       AttachPosition(frames, position)
  \/ \E predicate \in Predicates : FilterInvalidFrames(predicate)
  \/ \E kinds \in Orders({frame.kind : frame \in value.frames_}),
        transform_kind \in KindTransforms,
        add_features \in FeatureAdditions :
       TransformKindWithFeatures(kinds, transform_kind, add_features)
  \/ \E callees \in Orders({frame.callee : frame \in Taint}),
        map_kind \in KindMaps :
       PartitionByKind(callees, map_kind)

Lattice == Init /\ [][NextLattice]_vars

\* The values given to the widenings: no frame, one frame, or the join of
\* the two frames of one group.
Operands ==
  {CallPositionFramesBottom,
   add(add(CallPositionFramesBottom, LatticeFrameOne), LatticeFrameTwo)}
    \cup {add(CallPositionFramesBottom, frame) : frame \in LatticeFrames}

\* value.widen_with(operand), any number of times.
WidenAny(operand) ==
  /\ Running
  /\ previous' = value
  /\ value' = widen_with(value, operand)
  /\ other' = operand
  /\ operation' = Binary("widen_with")
  /\ UNCHANGED <<third, buckets, adds, steps>>
  /\ UNCHANGED propagate_vars

\* A value is built, possibly emptied by difference_with, and then widened
\* again and again.
NextWidening ==
  \/ \E frame \in LatticeFrames : AddValue(frame)
  \/ \E frame \in LatticeFrames : AddOther(frame)
  \/ DifferenceWith
  \/ \E operand \in Operands : WidenAny(operand)

\* The widenings go on as long as one is possible.
Widening == Init /\ [][NextWidening]_vars /\ WF_vars(NextWidening)

(***************************************************************************)
(* Vocabulary of the properties of propagate.                              *)
(***************************************************************************)
Propagated == pc = "propagated"

\* An input frame that propagate does not drop for its distance.
Survives(frame) == frame.distance < arguments.maximum_source_sink_distance

\* The surviving non-CRTEX input frames of a kind.
NonCrtexSurvivors(kind) ==
  {frame \in frames_ : /\ frame.kind = kind
                       /\ ~is_crtex_producer_declaration(frame)
                       /\ Survives(frame)}

\* The frames of the result of a kind that are not CRTEX frames: the
\* canonical port of a CRTEX output has the Anchor root.
NonCrtexOutputs(kind) ==
  {frame \in result.frames_ : /\ frame.kind = kind
                              /\ ~is_crtex_producer_declaration(frame)}

CrtexOutputs(kind) ==
  {frame \in result.frames_ : /\ frame.kind = kind
                              /\ is_crtex_producer_declaration(frame)}

MinimumDistance(frames) ==
  CHOOSE distance \in {frame.distance : frame \in frames} :
    \A frame \in frames : distance <= frame.distance

\* C1: the surviving non-CRTEX frames of a kind collapse into exactly one
\* frame of that kind whose callee, callee_port and call_position are the
\* arguments of propagate, whose distance is 1 + the minimum distance of the
\* surviving frames and whose origins and field origins are their unions.
C1_Collapse ==
  Propagated =>
    \A kind \in Kinds :
      NonCrtexSurvivors(kind) # {} =>
        /\ Cardinality(NonCrtexOutputs(kind)) = 1
        /\ \A frame \in NonCrtexOutputs(kind) :
             /\ frame.callee = arguments.callee
             /\ frame.callee_port = arguments.callee_port
             /\ frame.call_position = arguments.call_position
             /\ frame.distance = 1 + MinimumDistance(NonCrtexSurvivors(kind))
             /\ frame.origins =
                  UNION {f.origins : f \in NonCrtexSurvivors(kind)}
             /\ frame.field_origins =
                  UNION {f.field_origins : f \in NonCrtexSurvivors(kind)}

\* C1 witness: three surviving frames of one kind, with different distances,
\* origins and field origins, are collapsed into a frame at distance 2.
C1_Witness ==
  /\ Propagated
  /\ Cardinality(NonCrtexSurvivors("TestSinkOne")) = 3
  /\ \E f, g \in NonCrtexSurvivors("TestSinkOne") :
       /\ f.distance = 1 /\ g.distance = 2
       /\ f.origins # g.origins
       /\ f.field_origins # g.field_origins
  /\ \E frame \in NonCrtexOutputs("TestSinkOne") :
       /\ frame.distance = 2
       /\ frame.origins = {"one", "two"}
       /\ frame.field_origins = {"field_one"}

\* The frames in the order of their visit that are not dropped.
SurvivingVisit == SelectSeq(visit, Survives)

\* The surviving input frames of the kind of a frame.
SurvivorsOfKind(kind) ==
  {frame \in frames_ : frame.kind = kind /\ Survives(frame)}

\* The features of a may-always set that no port materialized.
PlainFeatures(set) == {feature \in set.may : feature[1] = "feature"}

\* C2: a frame whose distance is >= maximum_source_sink_distance is dropped:
\* the result is the one of propagating the other frames alone and holds
\* nothing of the dropped frame, the other frames are still propagated, and
\* the result is bottom when every frame is dropped.
C2_Dropped ==
  Propagated =>
    /\ result = propagate(arguments, SurvivingVisit)
    /\ \A frame \in result.frames_ :
         /\ frame.origins \subseteq
              UNION {f.origins : f \in SurvivorsOfKind(frame.kind)}
         /\ frame.field_origins \subseteq
              UNION {f.field_origins : f \in SurvivorsOfKind(frame.kind)}
         /\ PlainFeatures(frame.inferred_features) \subseteq
              UNION {features(f).may : f \in SurvivorsOfKind(frame.kind)}
    /\ \A kind \in Kinds :
         NonCrtexSurvivors(kind) # {} => NonCrtexOutputs(kind) # {}
    /\ (\A frame \in frames_ : ~Survives(frame)) =>
         result = CallPositionFramesBottom

\* C2 witness: a frame is dropped while another frame of its kind is
\* propagated, and the origin of the dropped frame is not in the result.
C2_Witness ==
  /\ Propagated
  /\ \E dropped, kept \in frames_ :
       /\ dropped.kind = kept.kind
       /\ ~Survives(dropped) /\ Survives(kept)
       /\ ~is_crtex_producer_declaration(dropped)
       /\ ~is_crtex_producer_declaration(kept)
       /\ dropped.origins # {}
       /\ \E frame \in NonCrtexOutputs(kept.kind) :
            /\ frame.distance = kept.distance + 1
            /\ frame.origins \cap dropped.origins = {}

\* C3: every frame of the result has 0 <= distance <=
\* maximum_source_sink_distance, and no mt_assert of propagate fails.
C3_DistanceBound ==
  Propagated =>
    /\ ~result.aborted
    /\ \A frame \in result.frames_ :
         /\ 0 <= frame.distance
         /\ frame.distance <= arguments.maximum_source_sink_distance

\* C3 witness: a frame is propagated to exactly the maximum distance, next
\* to a CRTEX frame at distance 0.
C3_Witness ==
  /\ Propagated
  /\ \E frame \in result.frames_ :
       frame.distance = arguments.maximum_source_sink_distance
  /\ \E frame \in result.frames_ : frame.distance = 0

RECURSIVE FeaturesJoinAll(_)
\* The join of a set of may-always sets.
FeaturesJoinAll(sets) ==
  IF sets = {} THEN FeatureMayAlwaysSetBottom
  ELSE LET set == CHOOSE set \in sets : TRUE
       IN FeaturesJoin(set, FeaturesJoinAll(sets \ {set}))

HasPorts(frame) ==
  frame.via_type_of_ports # {} \/ frame.via_value_of_ports # {}

\* C4: the frame emitted for the non-CRTEX frames of a kind has no
\* field_callee and bottom locally_inferred_features, user_features,
\* via-type-of and via-value-of ports, local_positions and canonical_names;
\* the user features and the locally inferred features of the surviving
\* frames are in its inferred_features, which is the join of the frames'
\* features() when no port is materialized.
C4_Consumed ==
  Propagated =>
    \A kind \in Kinds :
      \A frame \in NonCrtexOutputs(kind) :
        /\ frame.field_callee = Null
        /\ frame.locally_inferred_features = FeatureMayAlwaysSetBottom
        /\ frame.user_features = {}
        /\ frame.via_type_of_ports = {}
        /\ frame.via_value_of_ports = {}
        /\ frame.local_positions = {}
        /\ frame.canonical_names = {}
        /\ \A f \in NonCrtexSurvivors(kind) :
             /\ f.user_features \subseteq frame.inferred_features.may
             /\ f.locally_inferred_features.may
                  \subseteq frame.inferred_features.may
        /\ (\A f \in NonCrtexSurvivors(kind) : ~HasPorts(f)) =>
             frame.inferred_features =
               FeaturesJoinAll({features(f) : f \in NonCrtexSurvivors(kind)})

\* C4 witness: frames with a field callee, user features, locally inferred
\* features, ports and local positions are collapsed into a frame that
\* holds the user feature as an inferred feature.
C4_Witness ==
  /\ Propagated
  /\ \E f, g \in NonCrtexSurvivors("TestSinkOne") :
       /\ f.user_features # {}
       /\ ~f.locally_inferred_features.bottom
       /\ f.local_positions # {}
       /\ g.field_callee # Null
       /\ HasPorts(g)
  /\ \E frame \in NonCrtexOutputs("TestSinkOne") :
       Feature("UserFeatureOne") \in frame.inferred_features.may

\* A port that can be materialized against a vector of `size` entries: an
\* argument whose position is inside the vector.
ValidPort(port, size) ==
  port.kind = "Argument" /\ 0 <= port.position /\ port.position < size

\* The features that the valid via-type-of and via-value-of ports of a
\* non-CRTEX frame materialize at the call site.
MaterializedFeatures(frame) ==
  {get_via_type_of_feature(
     arguments.source_register_types[parameter_position(port) + 1]) :
     port \in {p \in frame.via_type_of_ports :
                 ValidPort(p, Len(arguments.source_register_types))}}
  \cup
  {get_via_value_of_feature(
     arguments.source_constant_arguments[parameter_position(port) + 1]) :
     port \in {p \in frame.via_value_of_ports :
                 ValidPort(p, Len(arguments.source_constant_arguments))}}

\* C5: the feature materialized for a valid via-type-of or via-value-of
\* port of a surviving non-CRTEX frame is an always-feature of the frame
\* emitted for the kind, also when several frames are collapsed.
C5_AlwaysMaterialized ==
  Propagated =>
    \A kind \in Kinds :
      \A f \in NonCrtexSurvivors(kind) :
        \A frame \in NonCrtexOutputs(kind) :
          MaterializedFeatures(f) \subseteq frame.inferred_features.always

\* The frame without the ports that propagate cannot materialize: the
\* via-value-of ports of a CRTEX frame are read against an empty vector.
WithoutInvalidPorts(frame) ==
  [frame EXCEPT
     !.via_type_of_ports =
        {port \in @ :
           ValidPort(port, Len(arguments.source_register_types))},
     !.via_value_of_ports =
        {port \in @ :
           ValidPort(port,
                        IF is_crtex_producer_declaration(frame) THEN 0
                        ELSE Len(arguments.source_constant_arguments))}]

\* The features of a may-always set that a port materialized.
PortFeatures(set) == {feature \in set.may : feature[1] # "feature"}

\* C6: a via-type-of or via-value-of port that is not an argument, or whose
\* position is beyond the vector, is skipped: propagate does not abort, the
\* result is the one for the frames without their invalid ports, an invalid
\* port adds no feature and the valid ports are still materialized.
C6_InvalidPortSkipped ==
  Propagated =>
    /\ ~result.aborted
    /\ result =
         propagate(arguments,
                   [i \in 1..Len(visit) |-> WithoutInvalidPorts(visit[i])])
    /\ \A kind \in Kinds :
         \A frame \in NonCrtexOutputs(kind) :
           PortFeatures(frame.inferred_features) =
             UNION {MaterializedFeatures(f) : f \in NonCrtexSurvivors(kind)}

\* C6 witness: a surviving frame has a valid and an invalid via-type-of
\* port and only the feature of the valid port is in the emitted frame.
C6_Witness ==
  /\ Propagated
  /\ \E f \in NonCrtexSurvivors("TestSinkOne") :
       /\ \E port \in f.via_type_of_ports :
            ~ValidPort(port, Len(arguments.source_register_types))
       /\ \E port \in f.via_type_of_ports :
            ValidPort(port, Len(arguments.source_register_types))
       /\ \E frame \in NonCrtexOutputs("TestSinkOne") :
            PortFeatures(frame.inferred_features) = MaterializedFeatures(f)

\* The CRTEX input frames of a kind.
CrtexInputs(kind) ==
  {frame \in frames_ : /\ frame.kind = kind
                       /\ is_crtex_producer_declaration(frame)}

\* The via-type-of features of the valid ports of a frame, as a vector.
TypeFeatureVector(frame) ==
  LET ports == {port \in frame.via_type_of_ports :
                  ValidPort(port, Len(arguments.source_register_types))}
      order == CHOOSE order \in Orders(ports) : TRUE
  IN [i \in 1..Len(order) |->
        get_via_type_of_feature(
          arguments.source_register_types[order[i].position + 1])]

\* The canonical names of a frame that instantiate at the call site.
NamesAtCallSite(frame) ==
  InstantiatedNames(frame.canonical_names, arguments.callee,
                    TypeFeatureVector(frame))

\* A CRTEX input frame for which propagate emits a frame.
CrtexSurvivor(frame) ==
  /\ is_crtex_producer_declaration(frame)
  /\ Survives(frame)
  /\ NamesAtCallSite(frame) # {}

\* The frame that the non-CRTEX collapse yields for a frame alone.
Singleton(frame, source_constant_arguments) ==
  propagate_frames(arguments, source_constant_arguments, <<frame>>).frame

\* The attributes of every frame emitted for a CRTEX frame.
CrtexOutputOf(input, frame) ==
  /\ frame.kind = input.kind
  /\ frame.distance = 0
  /\ frame.callee = arguments.callee
  /\ frame.call_position = arguments.call_position
  /\ frame.callee_port =
       canonicalize_for_method(arguments.callee_port, arguments.callee)
  /\ frame.callee_port.root = AnchorRoot
  /\ frame.canonical_names = NamesAtCallSite(input)

\* C7 as claimed: the frame emitted for a surviving CRTEX frame has the
\* origins and the inferred features of the non-CRTEX collapse of that
\* frame alone.
C7_CrtexAsSingleton ==
  Propagated =>
    \A input \in frames_ :
      CrtexSurvivor(input) =>
        \E frame \in result.frames_ :
          /\ CrtexOutputOf(input, frame)
          /\ LET alone ==
                   Singleton(input, arguments.source_constant_arguments)
             IN /\ frame.origins = alone.origins
                /\ frame.field_origins = alone.field_origins
                /\ frame.inferred_features = alone.inferred_features

\* The surviving CRTEX frames whose output is merged with the one of a
\* frame: same kind, same instantiated names.
CrtexGroup(input) ==
  {frame \in frames_ : /\ frame.kind = input.kind
                       /\ CrtexSurvivor(frame)
                       /\ NamesAtCallSite(frame) = NamesAtCallSite(input)}

\* C7 as amended: for every surviving CRTEX frame the result holds a frame
\* with distance 0, the callee and call position of the call, the
\* canonical port, the instantiated names of the frame, and the origins and
\* inferred features joined over the surviving CRTEX frames with the same
\* instantiated names, each collapsed alone without constant arguments.
C7_CrtexEmitted ==
  Propagated =>
    \A input \in frames_ :
      CrtexSurvivor(input) =>
        \E frame \in result.frames_ :
          /\ CrtexOutputOf(input, frame)
          /\ frame.origins =
               UNION {Singleton(f, <<>>).origins : f \in CrtexGroup(input)}
          /\ frame.field_origins =
               UNION {Singleton(f, <<>>).field_origins :
                        f \in CrtexGroup(input)}
          /\ frame.inferred_features =
               FeaturesJoinAll({Singleton(f, <<>>).inferred_features :
                                  f \in CrtexGroup(input)})

\* C7 witness: a CRTEX frame with a via-value-of port the call site has a
\* constant for is emitted without the via-value-of feature, next to two
\* CRTEX frames emitted as one frame.
C7_Witness ==
  /\ Propagated
  /\ \E input \in frames_ :
       /\ CrtexSurvivor(input)
       /\ \E port \in input.via_value_of_ports :
            ValidPort(port, Len(arguments.source_constant_arguments))
       /\ \E frame \in result.frames_ :
            /\ CrtexOutputOf(input, frame)
            /\ PortFeatures(frame.inferred_features)
                 = {get_via_type_of_feature("LTypeOne;")}
  /\ \E input \in frames_ :
       /\ CrtexSurvivor(input)
       /\ Cardinality(CrtexGroup(input)) = 2
       /\ \E frame \in result.frames_ :
            /\ CrtexOutputOf(input, frame)
            /\ frame.origins = {"one", "two"}

\* C8 as claimed: when every CRTEX frame of a kind survives, the result
\* holds as many CRTEX frames of the kind as there are CRTEX inputs.
C8_OnePerInput ==
  Propagated =>
    \A kind \in Kinds :
      (\A input \in CrtexInputs(kind) : CrtexSurvivor(input)) =>
        Cardinality(CrtexOutputs(kind)) = Cardinality(CrtexInputs(kind))

\* C8 as amended: the result holds one CRTEX frame of a kind per distinct
\* set of instantiated names of the surviving CRTEX frames of the kind;
\* the outputs of frames with the same instantiated names are one frame.
C8_OnePerNames ==
  Propagated =>
    \A kind \in Kinds :
      /\ Cardinality(CrtexOutputs(kind)) =
           Cardinality({NamesAtCallSite(input) :
                          input \in {f \in CrtexInputs(kind) :
                                       CrtexSurvivor(f)}})
      /\ \A input \in CrtexInputs(kind) :
           CrtexSurvivor(input) =>
             \E frame \in CrtexOutputs(kind) :
               frame.canonical_names = NamesAtCallSite(input)

\* C8 witness: three surviving CRTEX frames of a kind, two of them with the
\* same instantiated names, give two frames.
C8_Witness ==
  /\ Propagated
  /\ Cardinality(CrtexInputs("TestSinkOne")) = 3
  /\ \A input \in CrtexInputs("TestSinkOne") : CrtexSurvivor(input)
  /\ Cardinality(CrtexOutputs("TestSinkOne")) = 2

\* The frames of the visit that are, or are not, CRTEX frames.
VisitOf(crtex) ==
  LET Selected(frame) == is_crtex_producer_declaration(frame) = crtex
  IN SelectSeq(visit, Selected)

\* C9 as claimed: when a kind has surviving frames of both sorts, the
\* result holds the collapsed non-CRTEX frame, computed from the non-CRTEX
\* frames only, and for each CRTEX frame a distinct frame computed from
\* that CRTEX frame only.
C9_OwnInputOnly ==
  Propagated =>
    \A kind \in Kinds :
      /\ NonCrtexSurvivors(kind) # {}
      /\ \E input \in CrtexInputs(kind) : CrtexSurvivor(input)
      =>
      /\ NonCrtexOutputs(kind) =
           {frame \in propagate(arguments, VisitOf(FALSE)).frames_ :
              frame.kind = kind}
      /\ \A input \in CrtexInputs(kind) :
           CrtexSurvivor(input) =>
             \E frame \in CrtexOutputs(kind) :
               /\ frame.canonical_names = NamesAtCallSite(input)
               /\ frame.origins = Singleton(input, <<>>).origins
               /\ frame.inferred_features =
                    Singleton(input, <<>>).inferred_features

\* C9 as amended: CRTEX frames are never collapsed with non-CRTEX frames:
\* the result is the disjoint union of the propagation of the non-CRTEX
\* frames alone and the propagation of the CRTEX frames alone, and the
\* collapsed frame holds the origins of the non-CRTEX frames only.
C9_Separated ==
  Propagated =>
    /\ result.frames_ =
         propagate(arguments, VisitOf(FALSE)).frames_
           \cup propagate(arguments, VisitOf(TRUE)).frames_
    /\ \A kind \in Kinds :
         /\ NonCrtexOutputs(kind) =
              {frame \in propagate(arguments, VisitOf(FALSE)).frames_ :
                 frame.kind = kind}
         /\ CrtexOutputs(kind) =
              {frame \in propagate(arguments, VisitOf(TRUE)).frames_ :
                 frame.kind = kind}
         /\ \A frame \in NonCrtexOutputs(kind) :
              /\ frame.origins =
                   UNION {f.origins : f \in NonCrtexSurvivors(kind)}
              /\ frame.canonical_names = {}
         /\ \A frame \in CrtexOutputs(kind) :
              /\ frame.origins \subseteq
                   UNION {f.origins : f \in CrtexInputs(kind)}
              /\ frame.canonical_names # {}

\* C9 witness: a kind has a surviving non-CRTEX frame and two surviving
\* CRTEX frames with other origins; the result holds the collapsed frame
\* and a CRTEX frame, with different origins.
C9_Witness ==
  /\ Propagated
  /\ Cardinality(NonCrtexSurvivors("TestSinkOne")) = 1
  /\ Cardinality({f \in CrtexInputs("TestSinkOne") : CrtexSurvivor(f)}) = 2
  /\ \E collapsed \in NonCrtexOutputs("TestSinkOne") :
       \E crtex \in CrtexOutputs("TestSinkOne") :
         /\ collapsed.origins # {}
         /\ crtex.origins # {}
         /\ collapsed.origins \cap crtex.origins = {}

\* The visit without a frame.
VisitWithout(frame) ==
  LET Other(f) == f # frame IN SelectSeq(visit, Other)

\* C10: a CRTEX frame without canonical names is skipped: the result is
\* the one of propagating the other frames alone, and every CRTEX frame of
\* the result has canonical names.
C10_NamelessSkipped ==
  Propagated =>
    /\ \A input \in frames_ :
         is_crtex_producer_declaration(input) /\ input.canonical_names = {}
           => result = propagate(arguments, VisitWithout(input))
    /\ \A kind \in Kinds :
         /\ \A frame \in CrtexOutputs(kind) : frame.canonical_names # {}
         /\ Cardinality(CrtexOutputs(kind)) <=
              Cardinality({f \in CrtexInputs(kind) : f.canonical_names # {}})

\* C10 witness: a CRTEX frame without canonical names that survives the
\* distance test is skipped while a CRTEX frame and a non-CRTEX frame of
\* the same call are propagated.
C10_Witness ==
  /\ Propagated
  /\ \E input \in CrtexInputs("TestSinkOne") :
       input.canonical_names = {} /\ Survives(input)
  /\ Cardinality(CrtexOutputs("TestSinkOne")) = 1
  /\ Cardinality(NonCrtexOutputs("TestSinkOne")) = 1
  /\ Cardinality(result.frames_) = 2

(***************************************************************************)
(* Instantiation of the canonical names of CRTEX frames.                   *)
(***************************************************************************)
\* A template of a frame that instantiates at the call site.
Instantiates(frame, canonical_name) ==
  instantiate(canonical_name, arguments.callee, TypeFeatureVector(frame)) # {}

\* The instantiated values of the templates of a frame that instantiate.
SucceededNames(frame) ==
  UNION {instantiate(canonical_name, arguments.callee,
                     TypeFeatureVector(frame)) :
           canonical_name \in frame.canonical_names}

\* C11: the frame emitted for a CRTEX frame holds exactly the names whose
\* instantiation succeeded (no template, nothing of a template that failed),
\* and a CRTEX frame none of whose names instantiates emits no frame: the
\* result is the one of propagating the other frames alone.
C11_InstantiatedNames ==
  Propagated =>
    /\ \A input \in frames_ :
         is_crtex_producer_declaration(input) /\ Survives(input)
           /\ input.canonical_names # {} =>
             IF \E name \in input.canonical_names : Instantiates(input, name)
               THEN \E frame \in CrtexOutputs(input.kind) :
                      frame.canonical_names = SucceededNames(input)
               ELSE result = propagate(arguments, VisitWithout(input))
    /\ \A frame \in result.frames_ :
         /\ \A name \in frame.canonical_names : name[1] = "instantiated"
         /\ is_crtex_producer_declaration(frame) =>
              \E input \in CrtexInputs(frame.kind) :
                /\ Survives(input)
                /\ frame.canonical_names = SucceededNames(input)
                /\ frame.canonical_names # {}

\* C11 witness: a frame with a template that instantiates and one that
\* fails is emitted with the first name only, while a frame whose only
\* template fails emits nothing.
C11_Witness ==
  /\ Propagated
  /\ \E input \in CrtexInputs("TestSinkOne") :
       /\ Survives(input)
       /\ \E name \in input.canonical_names : Instantiates(input, name)
       /\ \E name \in input.canonical_names : ~Instantiates(input, name)
       /\ \E frame \in CrtexOutputs("TestSinkOne") :
            /\ frame.canonical_names = SucceededNames(input)
            /\ Cardinality(frame.canonical_names) = 1
  /\ \E input \in CrtexInputs("TestSinkOne") :
       /\ Survives(input)
       /\ input.canonical_names # {}
       /\ \A name \in input.canonical_names : ~Instantiates(input, name)
  /\ Cardinality(CrtexOutputs("TestSinkOne")) = 1

(***************************************************************************)
(* Properties of add and of the lattice operations.                        *)
(***************************************************************************)
\* The last operation on `value`.
Did(name) == operation.name = name

\* C12: after a sequence of add calls every frame held has the call
\* position of the slot; add sets the slot on the first insertion only, and
\* adding a frame whose call position differs from the one of the frames
\* held fails the assertion and stores nothing.
C12_SlotOfAdd ==
  steps = 0 =>
    /\ ~value.aborted =>
         \A frame \in value.frames_ : frame.call_position = value.position_
    /\ Did("add") /\ previous.frames_ # {} =>
         IF \E frame \in previous.frames_ :
              frame.call_position # operation.frame.call_position
           THEN value.aborted /\ value.frames_ = previous.frames_
           ELSE ~value.aborted /\ value.position_ = previous.position_

\* C13: joining or widening a bottom value with a value that is not bottom
\* does not fail and yields a value equal to the latter, with the position
\* slot of the latter, whichever side is the bottom one.
C13_JoinWithBottom ==
  Did("join_with") \/ Did("widen_with") =>
    /\ is_bottom(previous) /\ ~is_bottom(other) =>
         /\ ~value.aborted
         /\ equals(value, other)
         /\ value.position_ = other.position_
    /\ ~is_bottom(previous) /\ is_bottom(other) =>
         /\ ~value.aborted
         /\ equals(value, previous)
         /\ value.position_ = previous.position_

\* C14: join is an upper bound: when join_with or widen_with returns, the
\* value before the call and the argument are both leq the new value, and
\* the assertions of the two leq hold: the expensive assertion never fails.
C14_UpperBound ==
  (Did("join_with") \/ Did("widen_with")) /\ ~value.aborted =>
    /\ ExpensiveAssertion(previous, other, value)
    /\ \A frame \in previous.frames_ \cup other.frames_ :
         \E joined \in value.frames_ :
           /\ GroupKey(joined) = GroupKey(frame)
           /\ frame.origins \subseteq joined.origins
           /\ features(frame).may \subseteq features(joined).may

\* C14 witness: two values that are not bottom and not comparable are
\* joined into a value that holds a frame of neither of them.
C14_Witness ==
  /\ Did("join_with")
  /\ ~value.aborted
  /\ ~is_bottom(previous) /\ ~is_bottom(other)
  /\ ~leq(previous, other) /\ ~leq(other, previous)
  /\ \E frame \in value.frames_ :
       frame \notin previous.frames_ \cup other.frames_
  /\ Cardinality(value.frames_) >= 2

\* a.join(b): join_with on a copy of a.
join(a, b) == join_with(a, b)

\* Two calls have the same outcome: both fail an assertion, or both return
\* and the values returned are equal.
SameOutcome(a, b) ==
  /\ a.aborted = b.aborted
  /\ ~a.aborted => equals(a, b) /\ LeqAssertion(a, b)

\* C15: join is commutative and associative and bottom is its identity,
\* for the values `value`, `other` and `third`.
C15_JoinLaws ==
  Running =>
    /\ SameOutcome(join(value, other), join(other, value))
    /\ SameOutcome(join(join(value, other), third),
                   join(value, join(other, third)))
    /\ SameOutcome(join(value, CallPositionFramesBottom), value)

\* C16: difference_with(bottom) leaves the value as it is, the difference
\* of a value with itself is bottom, and the difference of bottom with any
\* value is bottom; none of the three fails an assertion.
C16_DifferenceLaws ==
  Did("difference_with") =>
    /\ is_bottom(other) =>
         /\ ~value.aborted
         /\ value.frames_ = previous.frames_
         /\ value.position_ = previous.position_
    /\ other = previous => ~value.aborted /\ is_bottom(value)
    /\ is_bottom(previous) => ~value.aborted /\ is_bottom(value)

(***************************************************************************)
(* Monotonicity of propagate.                                              *)
(***************************************************************************)
\* The frames of the visit that are in a set, in the order of the visit.
VisitIn(frames) ==
  LET Selected(frame) == frame \in frames IN SelectSeq(visit, Selected)

\* C17: propagate is monotone: for every value a that is leq the value
\* propagated, a.propagate with the same arguments is leq the result.
C17_Monotone ==
  Propagated =>
    \A frames \in SUBSET frames_ :
      leq(CallPositionFrames(position_, frames),
          CallPositionFrames(position_, frames_)) =>
        /\ LeqAssertion(propagate(arguments, VisitIn(frames)), result)
        /\ leq(propagate(arguments, VisitIn(frames)), result)

(***************************************************************************)
(* partition_by_kind.                                                      *)
(***************************************************************************)
RECURSIVE JoinOfBuckets(_, _)
\* The join of the buckets of a map whose keys are `keys`.
JoinOfBuckets(map, keys) ==
  IF keys = {} THEN {}
  ELSE LET key == CHOOSE key \in keys : TRUE
       IN FramesJoin(JoinOfBuckets(map, keys \ {key}), map[key])

\* C18: partition_by_kind(map_kind) has a bucket for each value that the
\* kind of a frame of the taint maps to; a bucket holds only frames whose
\* kind maps to its key, every frame of the taint is in exactly one bucket
\* and the join of the buckets is the taint.
C18_PartitionByKind ==
  Did("partition_by_kind") =>
    /\ DOMAIN buckets = {operation.map_kind[frame.kind] : frame \in Taint}
    /\ \A key \in DOMAIN buckets :
         /\ buckets[key] # {}
         /\ \A frame \in buckets[key] : operation.map_kind[frame.kind] = key
    /\ \A frame \in Taint :
         Cardinality({key \in DOMAIN buckets : frame \in buckets[key]}) = 1
    /\ JoinOfBuckets(buckets, DOMAIN buckets) = Taint

\* C18 witness: a taint with frames of two callees and two kinds is
\* partitioned into two buckets, one of which holds frames of both callees.
C18_Witness ==
  /\ Did("partition_by_kind")
  /\ Cardinality({frame.callee : frame \in Taint}) = 2
  /\ Cardinality(DOMAIN buckets) = 2
  /\ \E key \in DOMAIN buckets :
       Cardinality({frame.callee : frame \in buckets[key]}) = 2
  /\ Cardinality(Taint) = 3

(***************************************************************************)
(* transform_kind_with_features.                                           *)
(***************************************************************************)
\* The kinds bound in the value before the transformation.
OriginalKinds == {frame.kind : frame \in previous.frames_}

\* The kinds of the vector that transform_kind returns for a kind.
NewKinds(kind) ==
  {operation.transform_kind[kind][i] :
     i \in 1..Len(operation.transform_kind[kind])}

\* A kind that transform_kind leaves as it is.
Preserved(kind) == operation.transform_kind[kind] = <<kind>>

\* The copy of a frame under a new kind: the features of add_features are
\* always-features of its locally inferred features, nothing else changes.
CopyOf(frame, new_kind) ==
  LET fs == operation.add_features[new_kind]
  IN [frame EXCEPT
        !.kind = new_kind,
        !.locally_inferred_features =
           IF fs.bottom \/ fs.may = {} THEN @
           ELSE IF @.bottom THEN fs
           ELSE MayAlways(@.may \cup fs.may, @.always \cup fs.always)]

\* What an original kind puts into the result.
Contribution(kind) ==
  IF Preserved(kind)
    THEN {frame \in previous.frames_ : frame.kind = kind}
    ELSE {CopyOf(frame, new_kind) :
            frame \in {f \in previous.frames_ : f.kind = kind},
            new_kind \in NewKinds(kind)}

\* An original kind none of whose new kinds is a new kind of another
\* original kind.
AloneOnTargets(kind) ==
  \A another \in OriginalKinds \ {kind} :
    NewKinds(another) \cap NewKinds(kind) = {}

\* C19: for each original kind K, with V = transform_kind(K): an empty V
\* drops the frames of K, V = [K] keeps them as they are, and any other V
\* puts under each kind of V a copy of each frame of K with that kind and
\* add_features of that kind added to its locally inferred features.  The
\* result holds every such frame (joined with the frames that other kinds
\* put into its group), exactly these frames when K is alone on its new
\* kinds, and no frame of a kind that is not in a V.
C19_TransformKind ==
  Did("transform_kind_with_features") =>
    /\ value.position_ = previous.position_
    /\ \A frame \in value.frames_ :
         \E kind \in OriginalKinds : frame.kind \in NewKinds(kind)
    /\ \A kind \in OriginalKinds :
         /\ \A frame \in Contribution(kind) :
              \E held \in value.frames_ :
                GroupEqual(held, frame) /\ FrameLeq(frame, held)
         /\ AloneOnTargets(kind) =>
              {frame \in value.frames_ : frame.kind \in NewKinds(kind)}
                = Contribution(kind)

\* C20: the result of transform_kind_with_features is the join of what the
\* original kinds put into it, whatever the order in which the kinds are
\* visited and also when a new kind is an original kind left as it is.
C20_TransformJoins ==
  Did("transform_kind_with_features") =>
    value.frames_ =
      FramesJoin({}, UNION {Contribution(kind) : kind \in OriginalKinds})

(***************************************************************************)
(* attach_position.                                                        *)
(***************************************************************************)
\* The leaf frames of the value attach_position was called on.
LeafInputs == {frame \in previous.frames_ : frame.callee = Null}

\* `output` is the frame that attach_position derives from `input`: the
\* kind, the port, the origins and the field origins of the input, no
\* callee, distance 0, at the position given.
DerivedFrom(output, input) ==
  /\ output.kind = input.kind
  /\ output.callee_port = input.callee_port
  /\ output.origins = input.origins
  /\ output.field_origins = input.field_origins
  /\ output.callee = Null
  /\ output.field_callee = Null
  /\ output.distance = 0
  /\ output.call_position = operation.position

\* The leaf frames of the input whose derived frame is in the group of
\* `output`: the kind, the port and the canonical names of `output`.
Sources(output) ==
  {input \in LeafInputs : /\ input.kind = output.kind
                          /\ input.callee_port = output.callee_port
                          /\ input.canonical_names = output.canonical_names}

\* The frames of the input are at one call position, as the frames of a
\* CallPositionFrames are expected to be.
AtOnePosition ==
  \A frame, another \in previous.frames_ :
    frame.call_position = another.call_position

\* C21: every frame of the result of attach_position(position) is derived
\* from a leaf frame of the input: it has no callee, the distance 0, the
\* call position `position` and the kind, the port, the origins and the
\* field origins of the leaf (of the leaves, joined, when the result groups
\* several of them); every leaf has its frame, frames with a callee
\* contribute nothing, and the position slot of the result is `position`.
\* For an input at one call position the result holds one frame per leaf.
C21_AttachPosition ==
  Did("attach_position") =>
    /\ value.position_ = operation.position
    /\ \A output \in value.frames_ :
         /\ output.callee = Null
         /\ output.field_callee = Null
         /\ output.distance = 0
         /\ output.call_position = operation.position
         /\ Sources(output) # {}
         /\ output.origins =
              UNION {input.origins : input \in Sources(output)}
         /\ output.field_origins =
              UNION {input.field_origins : input \in Sources(output)}
    /\ \A input \in LeafInputs :
         \E output \in value.frames_ : input \in Sources(output)
    /\ AtOnePosition =>
         /\ Cardinality(value.frames_) = Cardinality(LeafInputs)
         /\ \A output \in value.frames_ :
              \E input \in LeafInputs : DerivedFrom(output, input)
         /\ \A input \in LeafInputs :
              \E output \in value.frames_ : DerivedFrom(output, input)

\* attach_position was called on a value with two leaf frames and a frame
\* with a callee, with another position than the one of the value.
C21_Witness ==
  /\ Did("attach_position")
  /\ AtOnePosition
  /\ Cardinality(LeafInputs) = 2
  /\ previous.frames_ \ LeafInputs # {}
  /\ operation.position # previous.position_
  /\ Cardinality(value.frames_) = 2

\* The locally inferred features that attach_position gives the frame
\* derived from a leaf.
Promoted(input) ==
  IF input.user_features = {}
    THEN FeatureMayAlwaysSetBottom
    ELSE MayAlways(input.user_features, input.user_features)

\* C22: the frame that attach_position derives from a leaf frame has the
\* user features of the leaf as always-features in its locally inferred
\* features (bottom when the leaf has none), no user features and no
\* via-type-of or via-value-of port, and the features(), the local
\* positions and the canonical names of the leaf; when the result groups
\* the frames derived from several leaves, these attributes are joined.
C22_AttachedFeatures ==
  Did("attach_position") =>
    /\ \A output \in value.frames_ :
         /\ output.locally_inferred_features =
              FeaturesJoinAll({Promoted(input) : input \in Sources(output)})
         /\ output.inferred_features =
              FeaturesJoinAll({features(input) : input \in Sources(output)})
         /\ output.local_positions =
              UNION {input.local_positions : input \in Sources(output)}
         /\ output.user_features = {}
         /\ output.via_type_of_ports = {}
         /\ output.via_value_of_ports = {}
    /\ \A input \in LeafInputs :
         \E output \in value.frames_ :
           /\ input \in Sources(output)
           /\ output.canonical_names = input.canonical_names
           /\ Sources(output) = {input} =>
                /\ DerivedFrom(output, input)
                /\ output.locally_inferred_features = Promoted(input)
                /\ output.inferred_features = features(input)
                /\ output.local_positions = input.local_positions

\* attach_position was called on a value with a leaf that has user
\* features, inferred and locally inferred features, a port and a local
\* position, and a leaf without user features.
C22_Witness ==
  /\ Did("attach_position")
  /\ \E input \in LeafInputs :
       /\ input.user_features # {}
       /\ input.via_type_of_ports # {}
       /\ input.local_positions # {}
       /\ ~input.locally_inferred_features.bottom
       /\ \E output \in value.frames_ :
            /\ Sources(output) = {input}
            /\ DerivedFrom(output, input)
            /\ output.locally_inferred_features.always # {}
            /\ Cardinality(output.inferred_features.may) = 3
  /\ \E input \in LeafInputs : input.user_features = {}

(***************************************************************************)
(* filter_invalid_frames.                                                  *)
(***************************************************************************)
\* The frames of the previous value that the predicate given to
\* filter_invalid_frames holds for.
ValidFrames ==
  {frame \in previous.frames_ :
     is_valid(operation.is_valid, frame.callee, frame.callee_port,
              frame.kind)}

\* C23: after filter_invalid_frames(is_valid) the value holds exactly the
\* frames of the previous value for which is_valid(callee, callee_port,
\* kind) is true, each as it was; a kind whose frames are all dropped is
\* not contained any more, and the value equals bottom when every frame is
\* dropped.
C23_FilterInvalidFrames ==
  Did("filter_invalid_frames") =>
    /\ value.frames_ = ValidFrames
    /\ \A kind \in AllKinds :
         contains_kind(value, kind) <=>
           \E frame \in ValidFrames : frame.kind = kind
    /\ ValidFrames = {} =>
         /\ LeqAssertion(value, CallPositionFramesBottom)
         /\ equals(value, CallPositionFramesBottom)
         /\ is_bottom(value)

\* filter_invalid_frames dropped every frame of a kind, and a frame of
\* another kind while it kept a frame of that kind.
C23_Witness ==
  /\ Did("filter_invalid_frames")
  /\ \E kind \in Kinds :
       /\ contains_kind(previous, kind)
       /\ ~contains_kind(value, kind)
  /\ value.frames_ # {}
  /\ Cardinality(previous.frames_) = 3
  /\ Cardinality(value.frames_) = 1

(***************************************************************************)
(* Chains of widenings.                                                    *)
(***************************************************************************)
\* C24: along any sequence of widen_with with values of the finite
\* universe, every value is leq the next one, and from some point on the
\* value does not change any more.
C24_WideningChain ==
  /\ [][(operation'.name = "widen_with" /\ ~value'.aborted) =>
          (LeqAssertion(value, value') /\ leq(value, value'))]_vars
  /\ <>[][value' = value]_vars

\* A widening made a value with frames strictly larger.
C24_Witness ==
  /\ Did("widen_with")
  /\ ~value.aborted
  /\ previous.frames_ # {}
  /\ other.frames_ # {}
  /\ leq(previous, value)
  /\ ~leq(value, previous)
  /\ ~leq(other, previous)

(***************************************************************************)
(* The join of two frames that differ in their distance.                   *)
(***************************************************************************)
\* C25: {f1}.join_with({f2}), f1 and f2 having the same kind, callee,
\* callee port and call position, f1 the distance 1 and f2 the distance 2,
\* yields a value equal to {f1}.
C25_JoinSameKind ==
  (/\ Did("join_with")
   /\ previous.frames_ = {LatticeFrameOne}
   /\ other.frames_ = {[LatticeFrameOne EXCEPT !.distance = 2]})
    => (~value.aborted
        /\ equals(value, add(CallPositionFramesBottom, LatticeFrameOne)))

\* The join of {f1} with {f2} has been computed and holds one frame, at
\* the distance 1.
C25_Witness ==
  /\ Did("join_with")
  /\ previous.frames_ = {LatticeFrameOne}
  /\ other.frames_ = {[LatticeFrameOne EXCEPT !.distance = 2]}
  /\ ~value.aborted
  /\ Cardinality(value.frames_) = 1
  /\ \A frame \in value.frames_ : frame.distance = 1

(***************************************************************************)
(* difference_with.                                                        *)
(***************************************************************************)
\* The frames of the argument of the operation that are in the group of a
\* frame: same kind and same group key.
Counterparts(frame) ==
  {right \in other.frames_ :
     /\ right.kind = frame.kind
     /\ right.callee = frame.callee
     /\ right.callee_port = frame.callee_port
     /\ right.call_position = frame.call_position
     /\ right.canonical_names = frame.canonical_names}

\* A frame that has a counterpart it is leq.
Covered(frame) == \E right \in Counterparts(frame) : FrameLeq(frame, right)

\* C26: after a.difference_with(b), a holds exactly the frames of the
\* previous a that have no frame of their group in b that they are leq; a
\* frame strictly above its counterpart, or not comparable with it, is kept
\* as it was, and what is only in b adds nothing.
C26_DifferenceWith ==
  (Did("difference_with") /\ ~value.aborted) =>
    /\ value.frames_ \subseteq previous.frames_
    /\ \A frame \in previous.frames_ :
         frame \in value.frames_ <=> ~Covered(frame)
    /\ \A frame \in previous.frames_ :
         \A right \in Counterparts(frame) :
           (right # frame /\ FrameLeq(right, frame)) => frame \in value.frames_
    /\ \A frame \in previous.frames_ :
         \A right \in Counterparts(frame) :
           (right.inferred_features # frame.inferred_features
              /\ ~FeaturesLeq(frame.inferred_features,
                              right.inferred_features)) =>
             frame \in value.frames_

\* difference_with removed a frame that is strictly below its counterpart.
C26_Witness ==
  /\ Did("difference_with")
  /\ ~value.aborted
  /\ \E frame \in previous.frames_ :
       /\ frame \notin value.frames_
       /\ \E right \in Counterparts(frame) :
            right # frame /\ FrameLeq(frame, right)

(***************************************************************************)
(* add_inferred_features.                                                  *)
(***************************************************************************)
\* The may-features and the always-features of a set, bottom having none.
May(fs) == IF fs.bottom THEN {} ELSE fs.may
Always(fs) == IF fs.bottom THEN {} ELSE fs.always

\* Two frames that differ at most in their locally inferred features.
SameButLocal(before, after) ==
  after = [before EXCEPT
             !.locally_inferred_features = after.locally_inferred_features]

\* The frame of the result that comes from a frame of the previous value.
Updated(before) ==
  {after \in value.frames_ : SameButLocal(before, after)}

\* The parts of the statement that C27 and its amendment share: a frame of
\* the result for each frame of the previous value, nothing changed but the
\* locally inferred features, whose may-features are the ones they were and
\* those of fs; features not in fs keep their status; an empty fs changes
\* nothing.
AddedToEachFrame ==
  /\ value.position_ = previous.position_
  /\ Cardinality(value.frames_) = Cardinality(previous.frames_)
  /\ \A before \in previous.frames_ :
       /\ Cardinality(Updated(before)) = 1
       /\ \A after \in Updated(before) :
            /\ May(after.locally_inferred_features) =
                 May(before.locally_inferred_features)
                   \cup May(operation.features)
            /\ \A feature \in May(before.locally_inferred_features)
                                \ May(operation.features) :
                 feature \in Always(after.locally_inferred_features) <=>
                   feature \in Always(before.locally_inferred_features)
  /\ May(operation.features) = {} => value = previous

\* C27 as stated: add_inferred_features(fs) changes the locally inferred
\* features of every frame only, every feature of fs becomes an
\* always-feature, the features that were there keep their status, and an
\* empty fs changes nothing.
C27_EveryFeatureAlways ==
  Did("add_inferred_features") =>
    /\ AddedToEachFrame
    /\ \A before \in previous.frames_ :
         \A after \in Updated(before) :
           May(operation.features) \subseteq
             Always(after.locally_inferred_features)

\* C27 amended: add_inferred_features(fs) changes the locally inferred
\* features of every frame only; the always-features of fs become
\* always-features, its other features become may-features unless they
\* were always-features already; the features that were there and are not
\* in fs keep their status, and an empty fs changes nothing.
C27_AddNotJoin ==
  Did("add_inferred_features") =>
    /\ AddedToEachFrame
    /\ \A before \in previous.frames_ :
         \A after \in Updated(before) :
           Always(after.locally_inferred_features) =
             Always(before.locally_inferred_features)
               \cup Always(operation.features)

\* add_inferred_features gave a may-feature and an always-feature to a frame
\* that had a may-feature.
C27_Witness ==
  /\ Did("add_inferred_features")
  /\ May(operation.features) \ Always(operation.features) # {}
  /\ Always(operation.features) # {}
  /\ \E before \in previous.frames_ :
       /\ May(before.locally_inferred_features) # {}
       /\ Always(before.locally_inferred_features) = {}
       /\ \E after \in Updated(before) :
            Cardinality(May(after.locally_inferred_features)) = 3

(***************************************************************************)
(* The position slot of a value without frames.                            *)
(***************************************************************************)
\* The operations that start with `if (is_bottom()) { mt_assert(position_
\* == nullptr); ... }`.
SlotAsserted ==
  operation.name \in
    {"join_with", "widen_with", "meet_with", "narrow_with", "difference_with"}

\* No value holds a frame without call position.
WithCallPosition ==
  \A held \in {value, other, third, previous} :
    \A frame \in held.frames_ : frame.call_position # Null

\* C28: with frames that have a call position, a value without frames has
\* an absent position slot after any sequence of the operations, so the
\* mt_assert(position_ == nullptr) of join_with, widen_with, meet_with,
\* narrow_with and difference_with does not fail.
C28_BottomHasNoSlot ==
  WithCallPosition =>
    /\ (~value.aborted /\ is_bottom(value)) => value.position_ = Null
    /\ (SlotAsserted /\ is_bottom(previous)) => previous.position_ = Null

(***************************************************************************)
(* The order in which propagate visits the frames.                         *)
(***************************************************************************)
\* C29: for a set of non-CRTEX frames of one kind and given arguments, the
\* result of propagate, in particular the may or always status of every
\* inferred feature of the emitted frame, is the same in whatever order
\* propagate_frames visits the frames.
C29_OrderIndependent ==
  (/\ Propagated
   /\ Cardinality({frame.kind : frame \in frames_}) = 1
   /\ \A frame \in frames_ : ~is_crtex_producer_declaration(frame))
    => \A order \in VisitOrders(frames_) :
         propagate(arguments, order) = result

(***************************************************************************)
(* The largest int as the distance of no surviving frame.                  *)
(***************************************************************************)
\* C30: for every maximum_source_sink_distance up to the largest int, a
\* frame with 0 <= distance < maximum_source_sink_distance is propagated:
\* the result is not bottom and its frame has the smallest such distance
\* plus one, which is at most the largest int.
C30_SentinelNeverReached ==
  Propagated =>
    \A kind \in Kinds :
      NonCrtexSurvivors(kind) # {} =>
        /\ \A frame \in NonCrtexSurvivors(kind) :
             0 <= frame.distance /\ frame.distance + 1 <= IntMax
        /\ \E output \in NonCrtexOutputs(kind) :
             \E frame \in NonCrtexSurvivors(kind) :
               /\ output.distance = frame.distance + 1
               /\ \A another \in NonCrtexSurvivors(kind) :
                    frame.distance <= another.distance

====
